---------------------------- MODULE Spec2Model ----------------------------
(***************************************************************************)
(* Content-addressed object serializer (stash).                            *)
(*                                                                         *)
(* The module models                                                       *)
(*   - the Mapping implementations Ram and Nil (src/src/db/ram.rs,          *)
(*     src/src/db/nil.rs),                                                 *)
(*   - the serializer Serialize (src/src/stash.rs) as a machine with an    *)
(*     explicit call stack, one step per serialize_chunk call, so that the *)
(*     store is visible between two put_blob calls,                        *)
(*   - the deserializer Deserialize and Object::create (src/src/stash.rs). *)
(*                                                                         *)
(* Bytes are the naturals 0..255, a blob is a sequence of bytes, a key is  *)
(* a sequence of NBYTES bytes.                                             *)
(***************************************************************************)
EXTENDS Integers, Sequences, FiniteSets, TLC

VARIABLES
    keygen,    \* the KeyGenerator G the store was built with: "Blake3" | "Mock"
    db,        \* the Mapping the running operation works on: "Ram" | "Nil"
    hashmap,   \* Ram.hashmap: function Key -> blob
    ret,       \* outcome of the last completed operation (what the caller sees)
    puts,      \* history: the <<blob, key>> of every successful put_blob
    pc,        \* "idle" | "serialize" (a to_py call is on the stack) | "overflow"
    stack,     \* call stack of Serialize::serialize, innermost frame last
    seen,      \* Serialize.seen: function object identity -> Key
    chunk,     \* observation of the last serialize_chunk call
    store0,    \* history: hashmap when the running to_py call started
    runs,      \* history: one record per completed to_py call
    nops,      \* number of to_py / from_py calls started so far
    modules,   \* Serialize.modules: the module names in the order the running call
               \* iterates them, <<>> while the call has not iterated them
    tree,      \* LSMTree.tree: the keys in the active memtable, the flushes done
    fsroot,    \* the directory of an FsDB: its subdirectories and its files
    procs      \* the processes calling FsDB::put_blob on fsroot

vars == <<keygen, db, hashmap, ret, puts, pc, stack, seen, chunk, store0, runs, nops,
          modules, tree, fsroot, procs>>

-----------------------------------------------------------------------------
(* Bytes and byte strings *)

Min(a, b) == IF a < b THEN a ELSE b

\* n copies of byte x
Rep(x, n) == [i \in 1..n |-> x]

\* Ord for Vec<u8> / [u8]: lexicographic, a strict prefix is smaller.
LexLess(a, b) ==
    LET n == Min(Len(a), Len(b))
        D == {i \in 1..n : a[i] # b[i]}
    IN  IF D = {} THEN Len(a) < Len(b)
        ELSE LET i == CHOOSE j \in D : \A k \in D : j <= k IN a[i] < b[i]

RECURSIVE Concat(_)
\* concatenation of a sequence of byte strings
Concat(ss) == IF ss = <<>> THEN <<>> ELSE Head(ss) \o Concat(Tail(ss))

-----------------------------------------------------------------------------
(* token *)

token_INT == 1
token_BYTES == 2
token_STRING == 3
token_FLOAT == 4
token_LIST == 5
token_TUPLE == 6
token_SET == 7
token_FROZENSET == 8
token_DICT == 9
token_NONE == 10
token_TRUE == 11
token_FALSE == 12
token_BYTEARRAY == 13
token_REDUCE == 14
token_GLOBAL == 15

-----------------------------------------------------------------------------
(* KeyGenerator.  The key generator is not part of the sources at hand; it *)
(* is modelled from its contract: digest is a deterministic function from  *)
(* byte strings to keys of NBYTES bytes.  "Blake3" stands for the          *)
(* collision-resistant default, "Mock" for a generator built to collide.   *)

NBYTES == 32

RECURSIVE Stripe(_, _)
\* checksum of the bytes b[j], b[j + NBYTES], b[j + 2 * NBYTES], ...; the
\* multiplier is odd, so two blobs that differ in one byte of the stripe differ
\* in the checksum
Stripe(b, j) ==
    IF j > Len(b) THEN 0 ELSE (b[j] + 1 + 3 * Stripe(b, j + NBYTES)) % 256

\* byte i of the key is the checksum of stripe i of the blob, the blob's length
\* written in front of it
Blake3Digest(b) ==
    LET lb == <<Len(b) % 256, Len(b) \div 256>> \o b
    IN  [i \in 1..NBYTES |-> Stripe(lb, i)]

\* collides on purpose: the key depends on the first byte of the blob only
MockDigest(b) == Rep(IF b = <<>> THEN 0 ELSE b[1], NBYTES)

digest(g, b) == IF g = "Blake3" THEN Blake3Digest(b) ELSE MockDigest(b)

\* Key::from_bytes: None unless the slice has NBYTES bytes
from_bytes_ok(s) == Len(s) = NBYTES

-----------------------------------------------------------------------------
(* Mapping: Ram and Nil.  An operator returns what the method returns      *)
(* together with the hashmap it leaves behind.                             *)

EmptyMap == [k \in {} |-> <<>>]

\* the mutant forgets the comparison with the blob already held
Ram_put_blob_nocompare(g, hm, b) ==
    LET h == digest(g, b)
    IN  [err |-> "ok", key |-> h,
         hashmap |-> [k \in DOMAIN hm \cup {h} |-> IF k = h THEN b ELSE hm[k]]]

\* the mutant writes the blob under the key before comparing
Ram_put_blob_overwrite(g, hm, b) ==
    LET h == digest(g, b)
        w == [k \in DOMAIN hm \cup {h} |-> IF k = h THEN b ELSE hm[k]]
    IN  IF h \in DOMAIN hm /\ hm[h] # b
        THEN [err |-> "Collision", key |-> h, hashmap |-> w]
        ELSE [err |-> "ok", key |-> h, hashmap |-> w]

\* the mutant refuses every put under a key that is already held
Ram_put_blob_strict(g, hm, b) ==
    LET h == digest(g, b)
    IN  IF h \in DOMAIN hm
        THEN [err |-> "Collision", key |-> h, hashmap |-> hm]
        ELSE [err |-> "ok", key |-> h,
              hashmap |-> [k \in DOMAIN hm \cup {h} |-> IF k = h THEN b ELSE hm[k]]]

\* Ram::put_blob
Ram_put_blob(g, hm, b) ==
    LET h == digest(g, b)
    IN  IF h \in DOMAIN hm
        THEN IF hm[h] # b
             THEN [err |-> "Collision", key |-> h, hashmap |-> hm]
             ELSE [err |-> "ok", key |-> h, hashmap |-> hm]
        ELSE [err |-> "ok", key |-> h,
              hashmap |-> [k \in DOMAIN hm \cup {h} |-> IF k = h THEN b ELSE hm[k]]]

\* the mutant answers a missing key with an empty blob
Ram_get_blob_empty(hm, h) ==
    IF h \in DOMAIN hm THEN [err |-> "ok", blob |-> hm[h]]
    ELSE [err |-> "ok", blob |-> <<>>]

\* Ram::get_blob
Ram_get_blob(hm, h) ==
    IF h \in DOMAIN hm THEN [err |-> "ok", blob |-> hm[h]]
    ELSE [err |-> "NotFound", blob |-> <<>>]

\* the mutant keeps the blob
Nil_put_blob_persist(g, hm, b) == Ram_put_blob(g, hm, b)

\* Nil::put_blob
Nil_put_blob(g, hm, b) == [err |-> "ok", key |-> digest(g, b), hashmap |-> hm]

\* Nil::get_blob
Nil_get_blob(hm, h) == [err |-> "NotFound", blob |-> <<>>]

\* LSMTree::put_blob: tree.insert, which overwrites; hm is what the tree holds
LSMTree_put_blob(g, hm, b) ==
    LET h == digest(g, b)
    IN  [err |-> "ok", key |-> h,
         hashmap |-> [k \in DOMAIN hm \cup {h} |-> IF k = h THEN b ELSE hm[k]]]

\* LSMTree::get_blob
LSMTree_get_blob(hm, h) ==
    IF h \in DOMAIN hm THEN [err |-> "ok", blob |-> hm[h]]
    ELSE [err |-> "NotFound", blob |-> <<>>]

\* tree.insert as the tree records it: the key is in the active memtable
insert(t, m, put, h) ==
    IF m = "LSM" /\ put THEN [t EXCEPT !.memtable = @ \cup {h}] ELSE t

\* the mutant returns without flushing
flush_nothing(t) == t

\* LSMTree::flush: tree.flush_active_memtable writes the memtable out
flush(t) == [memtable |-> {}, flushes |-> t.flushes + 1]

\* Mapping::put_blob, dispatched on the implementation
put_blob(m, g, hm, b) ==
    CASE m = "Ram" -> Ram_put_blob(g, hm, b)
      [] m = "LSM" -> LSMTree_put_blob(g, hm, b)
      [] OTHER     -> Nil_put_blob(g, hm, b)

\* Mapping::get_blob, dispatched on the implementation
get_blob(m, hm, h) ==
    CASE m = "Ram" -> Ram_get_blob(hm, h)
      [] m = "LSM" -> LSMTree_get_blob(hm, h)
      [] OTHER     -> Nil_get_blob(hm, h)

-----------------------------------------------------------------------------
(* The store driven directly: any sequence of put_blob and get_blob calls  *)
(* on one Mapping that starts empty.                                       *)

\* byte strings handed to put_blob; under Mock those with the same first byte collide
MapBlobs ==
    { <<>>, <<1>>, <<1, 2>>, <<2, 1>>, <<1, 2, 3>>, <<10>>, <<10, 0>> }

\* keys handed to get_blob: every digest of a blob above, and a key nothing hashes to
MapKeys ==
    {digest(g, b) : g \in {"Blake3", "Mock"}, b \in MapBlobs} \cup {Rep(255, NBYTES)}

NoRet == [op |-> "none"]

\* no Serialize, no LSMTree and no FsDB in use
NoTree == [memtable |-> {}, flushes |-> 0]

NoFs == [dirs |-> {}, files |-> EmptyMap]

NoProcs == [p \in {} |-> 0]

Unused ==
    /\ modules = <<>>
    /\ tree = NoTree
    /\ fsroot = NoFs
    /\ procs = NoProcs

InitMap ==
    /\ keygen \in {"Blake3", "Mock"}
    /\ db \in {"Ram", "Nil"}
    /\ hashmap = EmptyMap
    /\ ret = NoRet
    /\ puts = {}
    /\ pc = "idle"
    /\ stack = <<>>
    /\ seen = EmptyMap
    /\ chunk = [kind |-> "none"]
    /\ store0 = EmptyMap
    /\ runs = {}
    /\ nops = 0
    /\ Unused

MapPut(b) ==
    LET r == put_blob(db, keygen, hashmap, b)
    IN  /\ hashmap' = r.hashmap
        /\ ret' = [op |-> "put_blob", arg |-> b, err |-> r.err, key |-> r.key,
                   held |-> digest(keygen, b) \in DOMAIN hashmap]
        /\ puts' = IF r.err = "ok" THEN puts \cup {<<b, r.key>>} ELSE puts
        /\ UNCHANGED <<modules, tree, fsroot, procs, keygen, db, pc, stack, seen, chunk, store0, runs, nops>>

MapGet(h) ==
    LET r == get_blob(db, hashmap, h)
    IN  /\ ret' = [op |-> "get_blob", arg |-> h, err |-> r.err, blob |-> r.blob]
        /\ UNCHANGED <<modules, tree, fsroot, procs, keygen, db, hashmap, puts, pc, stack, seen, chunk, store0, runs, nops>>

NextMap ==
    \/ \E b \in MapBlobs : MapPut(b)
    \/ \E h \in MapKeys : MapGet(h)

SpecMap == InitMap /\ [][NextMap]_vars

-----------------------------------------------------------------------------
(* The host's values.  An object has an identity (a string here, the       *)
(* address obj.as_ptr() in the code), a kind and a payload; a container    *)
(* holds the identities of its children, so that one object can sit at     *)
(* several places.                                                         *)

PyObj(kind, n, data, items) ==
    [kind |-> kind, n |-> n, data |-> data, items |-> items]

Heap ==
    [ none   |-> PyObj("none", 0, <<>>, <<>>),
      true   |-> PyObj("bool", 1, <<>>, <<>>),
      false  |-> PyObj("bool", 0, <<>>, <<>>),
      i0     |-> PyObj("int", 0, <<>>, <<>>),
      i1     |-> PyObj("int", 1, <<>>, <<>>),
      i2     |-> PyObj("int", 2, <<>>, <<>>),
      i3     |-> PyObj("int", 3, <<>>, <<>>),
      i128   |-> PyObj("int", 128, <<>>, <<>>),
      im129  |-> PyObj("int", -129, <<>>, <<>>),
      bAB    |-> PyObj("bytes", 0, <<65, 66>>, <<>>),
      b254   |-> PyObj("bytes", 0, Rep(65, 254), <<>>),
      b255   |-> PyObj("bytes", 0, Rep(65, 255), <<>>),
      b300   |-> PyObj("bytes", 0, Rep(66, 300), <<>>),
      sa     |-> PyObj("str", 0, <<97>>, <<>>),
      se     |-> PyObj("str", 0, <<233, 97>>, <<>>),
      ba     |-> PyObj("bytearray", 0, <<1, 2>>, <<>>),
      u      |-> PyObj("opaque", 0, <<>>, <<>>),
      gf     |-> PyObj("function", 0, <<102>>, <<>>),
      gs     |-> PyObj("named", 0, <<115>>, <<>>),
      le     |-> PyObj("list", 0, <<>>, <<>>),
      l12    |-> PyObj("list", 0, <<>>, <<"i1", "i2">>),
      l123   |-> PyObj("list", 0, <<>>, <<"i1", "i2", "i3">>),
      lxx    |-> PyObj("list", 0, <<>>, <<"l123", "l123">>),
      lshare |-> PyObj("list", 0, <<>>, <<"b255", "b254", "b255">>),
      lbig   |-> PyObj("list", 0, <<>>, <<"b254", "i1">>),
      ll     |-> PyObj("list", 0, <<>>, <<"lbig", "im129", "lbig">>),
      lu     |-> PyObj("list", 0, <<>>, <<"b255", "u">>),
      lg     |-> PyObj("list", 0, <<>>, <<"gf", "gs", "gs">>),
      lgs    |-> PyObj("list", 0, <<>>, <<"lbig", "gs", "lbig">>),
      lgu    |-> PyObj("list", 0, <<>>, <<"gs", "u">>),
      cyc    |-> PyObj("list", 0, <<>>, <<"cyc">>),
      lcd    |-> PyObj("list", 0, <<>>, <<"b255", "dcyc">>),
      dcyc   |-> PyObj("dict", 0, <<>>, << <<"sa", "lcd">> >>),
      lcu    |-> PyObj("list", 0, <<>>, <<"u", "lcu">>),
      t12    |-> PyObj("tuple", 0, <<>>, <<"i1", "i2">>),
      tbig   |-> PyObj("tuple", 0, <<>>, <<"i2", "b300", "le">>),
      s12    |-> PyObj("set", 0, <<>>, <<"i1", "i2">>),
      smix   |-> PyObj("set", 0, <<>>, <<"b255", "i128", "sa">>),
      fs     |-> PyObj("frozenset", 0, <<>>, <<"t12", "bAB">>),
      d      |-> PyObj("dict", 0, <<>>, << <<"sa", "i1">>, <<"se", "b300">> >>),
      dn     |-> PyObj("dict", 0, <<>>, << <<"fs", "s12">>, <<"i0", "ba">> >>),
      nest   |-> PyObj("list", 0, <<>>, <<"dn", "tbig", "none", "true", "false">>) ]

ObjIds == DOMAIN Heap

\* the objects handed to to_py
Roots == { "b300", "l12", "lxx", "lshare", "ll", "lu", "smix", "d", "nest" }

\* the objects handed to to_py that hold functions and other named objects
GlobalRoots == { "lg", "lgs", "lgu" }

\* the objects handed to to_py that hold themselves: a list that is its own
\* item, a list in a dict in the list, a list of an object that cannot be
\* dumped and of the list; and objects that do not
CycleRoots == { "cyc", "lcd", "lcu", "l12", "ll", "lu", "nest" }

\* a function (its name is __name__), or an object whose reducer returns a
\* string, the name it is known by
IsGlobal(o) == Heap[o].kind \in {"function", "named"}

\* the objects that have a __module__ attribute, and its value
ModuleAttr == [ gf |-> <<109, 97>> ]

\* sys.modules: the loaded modules "ma" and "mb"; both expose the object gs
\* under the name "s"
sys_modules ==
    [ ma |-> [name |-> <<109, 97>>, attrs |-> { <<<<102>>, "gf">>, <<<<115>>, "gs">> }],
      mb |-> [name |-> <<109, 98>>, attrs |-> { <<<<115>>, "gs">> }] ]

\* the keys of sys.modules, in some order
ModuleIds == <<"ma", "mb">>

Leaf(o) ==
    Heap[o].kind \in {"none", "bool", "int", "bytes", "str", "bytearray"}

Unordered(o) == Heap[o].kind \in {"set", "frozenset", "dict"}

\* every order in which the host may iterate the items of a container
Orders(items) ==
    LET n == Len(items)
    IN  { [i \in 1..n |-> items[f[i]]] :
            f \in {g \in [1..n -> 1..n] : \A i, j \in 1..n : g[i] = g[j] => i = j} }

\* the order the host iterates o in: fixed for a list or tuple, any for a set
\* or dict (for a dict the pairs are kept together)
IterOrders(o) == IF Unordered(o) THEN Orders(Heap[o].items) ELSE {Heap[o].items}

RECURSIVE Flatten(_)
Flatten(pairs) ==
    IF pairs = <<>> THEN <<>> ELSE <<Head(pairs)[1], Head(pairs)[2]>> \o Flatten(Tail(pairs))

\* the children in the order serialize_chunk is called on them
Children(o, order) == IF Heap[o].kind = "dict" THEN Flatten(order) ELSE order

\* the children of the object o
Kids(o) ==
    IF Heap[o].kind = "dict"
    THEN UNION {{Heap[o].items[i][1], Heap[o].items[i][2]} : i \in 1..Len(Heap[o].items)}
    ELSE {Heap[o].items[i] : i \in 1..Len(Heap[o].items)}

RECURSIVE Below(_)
\* the objects held by the objects S, directly or through other objects
Below(S) ==
    LET N == S \cup UNION {Kids(x) : x \in S}
    IN  IF N = S THEN S ELSE Below(N)

-----------------------------------------------------------------------------
(* Int: the host's int.bit_length, int.to_bytes and int.from_bytes with    *)
(* byteorder = "big", signed = True, as Int::write_to and Int::read_from   *)
(* call them.                                                              *)

RECURSIVE bit_length(_)
bit_length(x) ==
    LET a == IF x < 0 THEN -x ELSE x
    IN  IF a = 0 THEN 0 ELSE 1 + bit_length(a \div 2)

RECURSIVE Pow256(_)
Pow256(k) == IF k = 0 THEN 1 ELSE 256 * Pow256(k - 1)

\* int.to_bytes(x, len, "big", signed=True) for an x that fits
to_bytes(x, len) ==
    LET w == IF x < 0 THEN x + Pow256(len) ELSE x
    IN  [i \in 1..len |-> (w \div Pow256(len - i)) % 256]

RECURSIVE BigEndian(_, _)
BigEndian(b, n) == IF n = 0 THEN 0 ELSE BigEndian(b, n - 1) * 256 + b[n]

\* int.from_bytes(b, "big", signed=True)
from_bytes(b) ==
    LET w == BigEndian(b, Len(b))
    IN  IF b # <<>> /\ b[1] >= 128 THEN w - Pow256(Len(b)) ELSE w

\* the mutant counts the bytes without the sign bit
write_to_no_sign_bit(x) ==
    LET neg == x < 0
        n   == IF ~neg THEN bit_length(x) ELSE bit_length(x + 1)
    IN  IF neg \/ n > 0 THEN to_bytes(x, (n + 7) \div 8) ELSE <<>>

\* the mutant writes the number of payload bytes in front of them
write_to_len_prefixed(x) ==
    LET neg == x < 0
        n   == IF ~neg THEN bit_length(x) ELSE bit_length(x + 1)
    IN  IF neg \/ n > 0 THEN <<1 + (n \div 8)>> \o to_bytes(x, 1 + (n \div 8)) ELSE <<0>>

\* Int::write_to: the bytes appended for obj
write_to(x) ==
    LET neg == x < 0
        n   == IF ~neg THEN bit_length(x) ELSE bit_length(x + 1)
    IN  IF neg \/ n > 0 THEN to_bytes(x, 1 + (n \div 8)) ELSE <<>>

\* Int::read_from
read_from(b) == from_bytes(b)

-----------------------------------------------------------------------------
(* str <-> UTF-8, for code points below 2048 *)

RECURSIVE utf8_encode(_)
\* PyString::to_str().as_bytes()
utf8_encode(cps) ==
    IF cps = <<>> THEN <<>>
    ELSE LET c == Head(cps)
         IN  (IF c < 128 THEN <<c>> ELSE <<192 + (c \div 64), 128 + (c % 64)>>)
             \o utf8_encode(Tail(cps))

RECURSIVE utf8_decode(_)
\* std::str::from_utf8: the code points, or <<-1>> for bytes that are no UTF-8
\* (sequences of three and four bytes are outside the model's strings)
utf8_decode(b) ==
    IF b = <<>> THEN <<>>
    ELSE IF b[1] < 128
         THEN LET r == utf8_decode(Tail(b))
              IN  IF r = <<-1>> THEN r ELSE <<b[1]>> \o r
    ELSE IF b[1] >= 194 /\ b[1] < 224 /\ Len(b) >= 2 /\ b[2] >= 128 /\ b[2] < 192
         THEN LET r == utf8_decode(Tail(Tail(b)))
              IN  IF r = <<-1>> THEN r ELSE <<(b[1] - 192) * 64 + (b[2] - 128)>> \o r
    ELSE <<-1>>

-----------------------------------------------------------------------------
(* Serialize *)

U8_MAX == 255

\* chunks.sort()
SortChunksIdentity(chunks) == chunks

\* chunks.sort(): Vec<Vec<u8>> in lexicographic byte order
SortChunks(chunks) == SortSeq(chunks, LexLess)

\* Serialize::serialize on an object without children: the blob
serialize_leaf(o) ==
    LET x == Heap[o]
    IN  CASE x.kind = "str"       -> <<token_STRING>> \o utf8_encode(x.data)
          [] x.kind = "bytearray" -> <<token_BYTEARRAY>> \o x.data
          [] x.kind = "bytes"     -> <<token_BYTES>> \o x.data
          [] x.kind = "int"       -> <<token_INT>> \o write_to(x.n)
          [] x.kind = "none"      -> <<token_NONE>>
          [] x.kind = "bool"      -> <<IF x.n = 1 THEN token_TRUE ELSE token_FALSE>>

\* Serialize::extend_global: the blob of the object o known by name, mo being
\* the order in which self.modules.iter() yields the modules
extend_global(o, name, mo) ==
    LET found == {i \in 1..Len(mo) : <<name, o>> \in sys_modules[mo[i]].attrs}
        module == IF o \in DOMAIN ModuleAttr THEN ModuleAttr[o]
                  ELSE IF found # {}
                       THEN sys_modules[mo[CHOOSE i \in found : \A j \in found : i <= j]].name
                  ELSE <<95, 95, 109, 97, 105, 110, 95, 95>>
    IN  <<token_GLOBAL>> \o utf8_encode(module) \o <<58>> \o utf8_encode(name)

\* Serialize::serialize on a function, or on an object reduced to a string
serialize_global(o, mo) == extend_global(o, Heap[o].data, mo)

\* the tag Serialize::serialize pushes first for a container
ContainerToken(o) ==
    LET k == Heap[o].kind
    IN  CASE k = "list"      -> token_LIST
          [] k = "tuple"     -> token_TUPLE
          [] k = "set"       -> token_SET
          [] k = "frozenset" -> token_FROZENSET
          [] k = "dict"      -> token_DICT

\* a call of Serialize::serialize on o that still has the children todo to visit:
\* v is the blob so far, chunks the finished chunks of an unordered container,
\* pair the key chunk of the dict entry being written
Frame(o, order) ==
    [ obj    |-> o,
      order  |-> order,
      v      |-> IF Leaf(o) THEN serialize_leaf(o) ELSE <<ContainerToken(o)>>,
      todo   |-> IF Leaf(o) THEN <<>> ELSE Children(o, order),
      chunks |-> <<>>,
      pair   |-> <<>> ]

\* the vector serialize hands to serialize_chunk for the next child
ChunkIn(f) ==
    LET k == Heap[f.obj].kind
    IN  CASE k \in {"list", "tuple"}    -> f.v
          [] k \in {"set", "frozenset"} -> <<>>
          [] k = "dict"                 -> f.pair

\* the frame after serialize_chunk returned out for the child at the head of todo
ChunkOut(f, out) ==
    LET k == Heap[f.obj].kind
        rest == Tail(f.todo)
    IN  CASE k \in {"list", "tuple"} -> [f EXCEPT !.v = out, !.todo = rest]
          [] k \in {"set", "frozenset"} ->
                [f EXCEPT !.chunks = Append(@, out), !.todo = rest]
          [] k = "dict" ->
                IF Len(f.todo) % 2 = 0
                THEN [f EXCEPT !.pair = out, !.todo = rest]
                ELSE [f EXCEPT !.chunks = Append(@, out), !.pair = <<>>, !.todo = rest]

\* the blob Serialize::serialize returns once every child is written
FrameBlob(f) ==
    IF Unordered(f.obj) THEN f.v \o Concat(SortChunks(f.chunks)) ELSE f.v

\* the mutant writes a key of zeros for a child that is in seen
serialize_chunk_seen_null(sn, v, c) == v \o <<0>> \o Rep(0, NBYTES)

\* serialize_chunk, first branch: the child is in seen
serialize_chunk_seen(sn, v, c) == v \o <<0>> \o sn[c]

\* the mutant takes blobs of up to 256 bytes for inline ones
serialize_chunk_off_by_one(m, g, hm, sn, v, c, b) ==
    IF Len(b) <= U8_MAX + 1
    THEN [err |-> "ok", v |-> v \o <<Len(b) % 256>> \o b, hashmap |-> hm, seen |-> sn,
          put |-> FALSE]
    ELSE LET r == put_blob(m, g, hm, b)
         IN  IF r.err # "ok"
             THEN [err |-> r.err, v |-> v \o <<0>>, hashmap |-> r.hashmap, seen |-> sn,
                   put |-> TRUE]
             ELSE [err |-> "ok", v |-> v \o <<0>> \o r.key, hashmap |-> r.hashmap,
                   seen |-> [x \in DOMAIN sn \cup {c} |-> IF x = c THEN r.key ELSE sn[x]],
                   put |-> TRUE]

\* the mutant writes the reference without storing the blob
serialize_chunk_no_put(m, g, hm, sn, v, c, b) ==
    IF Len(b) <= U8_MAX
    THEN [err |-> "ok", v |-> v \o <<Len(b)>> \o b, hashmap |-> hm, seen |-> sn,
          put |-> FALSE]
    ELSE [err |-> "ok", v |-> v \o <<0>> \o digest(g, b), hashmap |-> hm,
          seen |-> [x \in DOMAIN sn \cup {c} |-> IF x = c THEN digest(g, b) ELSE sn[x]],
          put |-> FALSE]

\* the mutant enters every child into seen, the inline ones with the digest of
\* their blob
serialize_chunk_seen_inline(m, g, hm, sn, v, c, b) ==
    IF Len(b) <= U8_MAX
    THEN [err |-> "ok", v |-> v \o <<Len(b)>> \o b, hashmap |-> hm,
          seen |-> [x \in DOMAIN sn \cup {c} |-> IF x = c THEN digest(g, b) ELSE sn[x]],
          put |-> FALSE]
    ELSE LET r == put_blob(m, g, hm, b)
         IN  IF r.err # "ok"
             THEN [err |-> r.err, v |-> v \o <<0>>, hashmap |-> r.hashmap, seen |-> sn,
                   put |-> TRUE]
             ELSE [err |-> "ok", v |-> v \o <<0>> \o r.key, hashmap |-> r.hashmap,
                   seen |-> [x \in DOMAIN sn \cup {c} |-> IF x = c THEN r.key ELSE sn[x]],
                   put |-> TRUE]

\* serialize_chunk, second branch: b is the blob self.serialize(obj) returned for
\* the child c
serialize_chunk(m, g, hm, sn, v, c, b) ==
    IF Len(b) <= U8_MAX
    THEN [err |-> "ok", v |-> v \o <<Len(b)>> \o b, hashmap |-> hm, seen |-> sn,
          put |-> FALSE]
    ELSE LET r == put_blob(m, g, hm, b)
         IN  IF r.err # "ok"
             THEN [err |-> r.err, v |-> v \o <<0>>, hashmap |-> r.hashmap, seen |-> sn,
                   put |-> TRUE]
             ELSE [err |-> "ok", v |-> v \o <<0>> \o r.key, hashmap |-> r.hashmap,
                   seen |-> [x \in DOMAIN sn \cup {c} |-> IF x = c THEN r.key ELSE sn[x]],
                   put |-> TRUE]

\* the mutant stores only the first 255 bytes of a long root blob
to_py_put_truncated(m, g, hm, h) ==
    put_blob(m, g, hm, IF Len(h) <= U8_MAX THEN h ELSE SubSeq(h, 1, U8_MAX))

\* Serialize::to_py: db.put_blob(h) on the blob of the root
to_py_put(m, g, hm, h) == put_blob(m, g, hm, h)

-----------------------------------------------------------------------------
(* The host's values as Deserialize builds them, compared by structure: a  *)
(* record of a kind and a payload (a number, a sequence of bytes or code   *)
(* points, a sequence or a set of values, a set of key/value pairs).       *)

PyVal(kind, val) == [kind |-> kind, val |-> val]

RECURSIVE Value(_)
\* the value of the heap object o
Value(o) ==
    LET x == Heap[o]
    IN  CASE x.kind = "int" -> PyVal("int", x.n)
          [] x.kind = "bool" -> PyVal("bool", x.n = 1)
          [] x.kind = "none" -> PyVal("none", 0)
          [] x.kind \in {"bytes", "bytearray", "str"} -> PyVal(x.kind, x.data)
          [] x.kind \in {"list", "tuple"} ->
                PyVal(x.kind, [i \in 1..Len(x.items) |-> Value(x.items[i])])
          [] x.kind \in {"set", "frozenset"} ->
                PyVal(x.kind, {Value(x.items[i]) : i \in 1..Len(x.items)})
          [] x.kind = "dict" ->
                PyVal("dict", {<<Value(x.items[i][1]), Value(x.items[i][2])>> :
                                  i \in 1..Len(x.items)})
          [] OTHER -> PyVal("opaque", o)

RECURSIVE Hashable(_)
\* whether the host accepts the value as a set element or a dict key
Hashable(pv) ==
    CASE pv.kind \in {"list", "set", "dict", "bytearray", "error"} -> FALSE
      [] pv.kind = "tuple" -> \A i \in 1..Len(pv.val) : Hashable(pv.val[i])
      [] OTHER -> TRUE

-----------------------------------------------------------------------------
(* Deserialize.  The operators thread the decoder's state c through the    *)
(* calls: c.cache is Deserialize.cache, c.gets lists the keys get_blob was *)
(* called with, c.allocs counts the host objects made so far.  err is      *)
(* "ok", the error returned, or "panic" where the code indexes out of      *)
(* bounds or unwraps a None.                                               *)

Obj(o, val) == [o |-> o, val |-> val]

\* the identity of a host object in a loaded value: the n-th object the
\* decoder made (src "decode"), the attribute obj of an imported module (src
\* "import"), the host's None, True or False (src "singleton"), or the object Object::create made for the intermediate at the
\* position path of the tree it was given (src "create")
Ident(src, n, path, obj) == [src |-> src, n |-> n, path |-> path, obj |-> obj]

\* Object::Immutable(bound): the intermediate that holds a host object;
\* #[derive(Clone)] copies the handle, so every clone holds the same object
Immutable(pv, id) == [o |-> "Immutable", val |-> pv, id |-> id]

\* the decoder's state after it made one more host object
Allocated(c) == [c EXCEPT !.allocs = @ + 1]

PyError(err) == PyVal("error", err)

IsError(pv) == pv.kind = "error"

\* the pairs a dict holds after set_item was called for each of kvs in turn
SetItems(kvs) ==
    {kvs[i] : i \in {j \in 1..Len(kvs) : \A k \in (j + 1)..Len(kvs) : kvs[k][1] # kvs[j][1]}}

\* the first error among the values vs, PyVal("ok", 0) if there is none
FirstError(vs) ==
    LET E == {i \in 1..Len(vs) : IsError(vs[i])}
    IN  IF E = {} THEN PyVal("ok", 0) ELSE vs[CHOOSE i \in E : \A j \in E : i <= j]

RECURSIVE create(_)
\* Object::create: the host value for an intermediate, or the error
create(x) ==
    CASE x.o = "Immutable" -> x.val
      [] x.o = "ByteArray" -> PyVal("bytearray", x.val)
      [] x.o \in {"List", "Tuple", "Set", "FrozenSet"} ->
            LET vs == [i \in 1..Len(x.val) |-> create(x.val[i])]
                e  == FirstError(vs)
            IN  IF IsError(e) THEN e
                ELSE CASE x.o = "List"  -> PyVal("list", vs)
                       [] x.o = "Tuple" -> PyVal("tuple", vs)
                       [] OTHER ->
                            IF \E i \in 1..Len(vs) : ~Hashable(vs[i])
                            THEN PyError("TypeError")
                            ELSE PyVal(IF x.o = "Set" THEN "set" ELSE "frozenset",
                                       {vs[i] : i \in 1..Len(vs)})
      [] x.o = "Dict" ->
            LET kvs == [i \in 1..Len(x.val) |-> <<create(x.val[i][1]), create(x.val[i][2])>>]
                e   == FirstError([i \in 1..(2 * Len(kvs)) |-> kvs[(i + 1) \div 2][2 - (i % 2)]])
            IN  IF IsError(e) THEN e
                ELSE IF \E i \in 1..Len(kvs) : ~Hashable(kvs[i][1]) THEN PyError("TypeError")
                ELSE PyVal("dict", SetItems(kvs))
      [] x.o = "Reduce" ->
            IF Len(x.val) < 2 THEN PyError("panic")
            ELSE LET vs == [i \in 1..Len(x.val) |-> create(x.val[i])]
                     e  == FirstError(vs)
                 IN  IF IsError(e) THEN e ELSE PyVal("reduced", vs)

RECURSIVE create_ids(_, _)
\* the identities of the objects Object::create returns for the intermediate
\* x that sits at the position path: an Immutable is the object it holds, every
\* other intermediate becomes a new object, and so do its items (the pairs of
\* a Dict are listed key, value, key, value, ...); the items of a tuple or
\* frozenset that was created during decoding are not listed
create_ids(x, path) ==
    CASE x.o = "Immutable" -> [id |-> x.id, items |-> <<>>]
      [] x.o = "ByteArray" -> [id |-> Ident("create", 0, path, ""), items |-> <<>>]
      [] x.o = "Dict" ->
            [id |-> Ident("create", 0, path, ""),
             items |-> [i \in 1..(2 * Len(x.val)) |->
                          create_ids(x.val[(i + 1) \div 2][2 - (i % 2)], Append(path, i))]]
      [] OTHER ->
            [id |-> Ident("create", 0, path, ""),
             items |-> [i \in 1..Len(x.val) |-> create_ids(x.val[i], Append(path, i))]]

\* PyModule::import_bound(module)?.getattr(qualname)? for "module:qualname"
import_getattr(cps) ==
    LET colon    == CHOOSE i \in 1..Len(cps) :
                        cps[i] = 58 /\ \A j \in 1..(i - 1) : cps[j] # 58
        module   == SubSeq(cps, 1, colon - 1)
        qualname == SubSeq(cps, colon + 1, Len(cps))
        M == {id \in DOMAIN sys_modules : sys_modules[id].name = module}
        A == {a \in UNION {sys_modules[id].attrs : id \in M} : a[1] = qualname}
    IN  IF M = {} THEN [err |-> "ImportError", obj |-> ""]
        ELSE IF A = {} THEN [err |-> "AttributeError", obj |-> ""]
        ELSE [err |-> "ok", obj |-> (CHOOSE a \in A : TRUE)[2]]

AllImmutable(items) == \A i \in 1..Len(items) : items[i].o = "Immutable"

\* what deserialize and deserialize_chunks return
Decoded(err, obj, c) == [err |-> err, obj |-> obj, c |-> c]

NoObj == Obj("None", 0)

\* the pairs of a DICT payload: (k, it.next().unwrap())
Pairs(items) == [i \in 1..(Len(items) \div 2) |-> <<items[2 * i - 1], items[2 * i]>>]

\* TUPLE and FROZENSET of immutables are created at once
Eager(kind, items, c) ==
    IF AllImmutable(items)
    THEN LET pv == create(Obj(kind, items))
         IN  IF IsError(pv) THEN Decoded(pv.val, NoObj, c)
             ELSE Decoded("ok", Immutable(pv, Ident("decode", c.allocs, <<>>, "")),
                          Allocated(c))
    ELSE Decoded("ok", Obj(kind, items), c)

RECURSIVE deserialize(_, _, _, _)
RECURSIVE deserialize_chunks(_, _, _, _, _)

\* Deserialize::deserialize
deserialize(s, m, hm, c) ==
    IF s = <<>> THEN Decoded("panic", NoObj, c)
    ELSE
    LET token == s[1]
        data  == Tail(s)
        leaf(pv) == Decoded("ok", Immutable(pv, Ident("decode", c.allocs, <<>>, "")),
                            Allocated(c))
        ch    == deserialize_chunks(data, <<>>, m, hm, c)
    IN  CASE token = token_BYTES -> leaf(PyVal("bytes", data))
          [] token = token_BYTEARRAY -> Decoded("ok", Obj("ByteArray", data), c)
          [] token = token_STRING ->
                LET cps == utf8_decode(data)
                IN  IF cps = <<-1>> THEN Decoded("Utf8Error", NoObj, c)
                    ELSE leaf(PyVal("str", cps))
          [] token = token_INT -> leaf(PyVal("int", read_from(data)))
          [] token = token_FLOAT ->
                IF Len(data) # 8 THEN Decoded("TryFromSliceError", NoObj, c)
                ELSE leaf(PyVal("float", data))
          [] token = token_LIST ->
                IF ch.err # "ok" THEN ch ELSE Decoded("ok", Obj("List", ch.obj), ch.c)
          [] token = token_TUPLE ->
                IF ch.err # "ok" THEN ch ELSE Eager("Tuple", ch.obj, ch.c)
          [] token = token_SET ->
                IF ch.err # "ok" THEN ch ELSE Decoded("ok", Obj("Set", ch.obj), ch.c)
          [] token = token_FROZENSET ->
                IF ch.err # "ok" THEN ch ELSE Eager("FrozenSet", ch.obj, ch.c)
          [] token = token_DICT ->
                IF ch.err # "ok" THEN ch
                ELSE IF Len(ch.obj) % 2 = 1 THEN Decoded("panic", NoObj, ch.c)
                ELSE Decoded("ok", Obj("Dict", Pairs(ch.obj)), ch.c)
          [] token = token_NONE ->
                Decoded("ok", Immutable(PyVal("none", 0), Ident("singleton", 0, <<>>, "none")), c)
          [] token = token_TRUE ->
                Decoded("ok", Immutable(PyVal("bool", TRUE), Ident("singleton", 0, <<>>, "true")), c)
          [] token = token_FALSE ->
                Decoded("ok", Immutable(PyVal("bool", FALSE), Ident("singleton", 0, <<>>, "false")), c)
          [] token = token_GLOBAL ->
                LET cps == utf8_decode(data)
                IN  IF cps = <<-1>> THEN Decoded("Utf8Error", NoObj, c)
                    ELSE IF \A i \in 1..Len(cps) : cps[i] # 58 THEN Decoded("panic", NoObj, c)
                    ELSE LET r == import_getattr(cps)
                         IN  IF r.err # "ok" THEN Decoded(r.err, NoObj, c)
                             ELSE Decoded("ok", Immutable(PyVal("opaque", r.obj),
                                                          Ident("import", 0, <<>>, r.obj)), c)
          [] token = token_REDUCE ->
                IF ch.err # "ok" THEN ch ELSE Decoded("ok", Obj("Reduce", ch.obj), ch.c)
          [] OTHER -> Decoded("TypeError", NoObj, c)

RECURSIVE deserialize_chunks_uncached(_, _, _, _, _)
\* deserialize_chunks without self.cache.insert(hash, obj.clone())
deserialize_chunks_uncached(rem, items, m, hm, c) ==
    IF rem = <<>> THEN Decoded("ok", items, c)
    ELSE IF rem[1] = 0
    THEN IF Len(rem) < 1 + NBYTES THEN Decoded("panic", NoObj, c)
         ELSE LET hash == SubSeq(rem, 2, 1 + NBYTES)
                  rest == SubSeq(rem, 2 + NBYTES, Len(rem))
                  g    == get_blob(m, hm, hash)
                  c1   == [c EXCEPT !.gets = Append(@, hash)]
              IN  IF g.err # "ok" THEN Decoded(g.err, NoObj, c1)
                  ELSE LET r == deserialize(g.blob, m, hm, c1)
                       IN  IF r.err # "ok" THEN r
                           ELSE deserialize_chunks_uncached(rest, Append(items, r.obj),
                                                            m, hm, r.c)
    ELSE IF Len(rem) < 1 + rem[1] THEN Decoded("panic", NoObj, c)
         ELSE LET r == deserialize(SubSeq(rem, 2, 1 + rem[1]), m, hm, c)
              IN  IF r.err # "ok" THEN r
                  ELSE deserialize_chunks_uncached(SubSeq(rem, 2 + rem[1], Len(rem)),
                                                   Append(items, r.obj), m, hm, r.c)

\* Deserialize::deserialize_chunks: rem is what is left of the payload, items
\* the intermediates of the chunks read so far
deserialize_chunks(rem, items, m, hm, c) ==
    IF rem = <<>> THEN Decoded("ok", items, c)
    ELSE IF rem[1] = 0
    THEN IF Len(rem) < 1 + NBYTES THEN Decoded("panic", NoObj, c)
         ELSE LET hash == SubSeq(rem, 2, 1 + NBYTES)
                  rest == SubSeq(rem, 2 + NBYTES, Len(rem))
              IN  IF hash \in DOMAIN c.cache
                  THEN deserialize_chunks(rest, Append(items, c.cache[hash]), m, hm, c)
                  ELSE LET g  == get_blob(m, hm, hash)
                           c1 == [c EXCEPT !.gets = Append(@, hash)]
                       IN  IF g.err # "ok" THEN Decoded(g.err, NoObj, c1)
                           ELSE LET r == deserialize(g.blob, m, hm, c1)
                                IN  IF r.err # "ok" THEN r
                                    ELSE deserialize_chunks(rest, Append(items, r.obj), m, hm,
                                            [r.c EXCEPT !.cache =
                                                [k \in DOMAIN r.c.cache \cup {hash} |->
                                                    IF k = hash THEN r.obj ELSE r.c.cache[k]]])
    ELSE IF Len(rem) < 1 + rem[1] THEN Decoded("panic", NoObj, c)
         ELSE LET r == deserialize(SubSeq(rem, 2, 1 + rem[1]), m, hm, c)
              IN  IF r.err # "ok" THEN r
                  ELSE deserialize_chunks(SubSeq(rem, 2 + rem[1], Len(rem)),
                                          Append(items, r.obj), m, hm, r.c)

\* no value was returned
NoIds == [id |-> Ident("none", 0, <<>>, ""), items |-> <<>>]

NewDeserialize == [cache |-> EmptyMap, gets |-> <<>>, allocs |-> 0]

\* Deserialize::from_py: the value, or the error, for the key bytes kb
from_py(kb, m, hm) ==
    IF ~from_bytes_ok(kb)
    THEN [err |-> "panic", value |-> PyError("panic"), gets |-> <<>>,
          cache |-> EmptyMap, ids |-> NoIds]
    ELSE LET g == get_blob(m, hm, kb)
         IN  IF g.err # "ok"
             THEN [err |-> g.err, value |-> PyError(g.err), gets |-> <<kb>>,
                   cache |-> EmptyMap, ids |-> NoIds]
             ELSE LET r == deserialize(g.blob, m, hm, NewDeserialize)
                  IN  IF r.err # "ok"
                      THEN [err |-> r.err, value |-> PyError(r.err),
                            gets |-> <<kb>> \o r.c.gets, cache |-> r.c.cache, ids |-> NoIds]
                      ELSE LET pv == create(r.obj)
                           IN  [err |-> IF IsError(pv) THEN pv.val ELSE "ok",
                                value |-> pv, gets |-> <<kb>> \o r.c.gets,
                                cache |-> r.c.cache,
                                ids |-> IF IsError(pv) THEN NoIds
                                        ELSE create_ids(r.obj, <<>>)]

-----------------------------------------------------------------------------
(* Serialize::to_py as a machine.  A step is one call of serialize_chunk   *)
(* (or the entry into, or the return from, the serialize call of a child   *)
(* that has children itself), so every put_blob is a step of its own.      *)

MaxOps == 2

\* the number of nested serialize calls the thread's stack has room for
MaxDepth == 6

NoChunk == [kind |-> "none"]

Init ==
    /\ keygen \in {"Blake3", "Mock"}
    /\ db = "Ram"
    /\ hashmap = EmptyMap
    /\ ret = NoRet
    /\ puts = {}
    /\ pc = "idle"
    /\ stack = <<>>
    /\ seen = EmptyMap
    /\ chunk = NoChunk
    /\ store0 = EmptyMap
    /\ runs = {}
    /\ nops = 0
    /\ Unused

Top == stack[Len(stack)]

\* the bytes serialize_chunk appended to the vector it was given
Appended(vin, vout) == SubSeq(vout, Len(vin) + 1, Len(vout))

\* an error propagates with ? out of every serialize call and out of to_py
Abort(err) ==
    /\ pc' = "idle"
    /\ stack' = <<>>
    /\ seen' = EmptyMap
    /\ ret' = [op |-> "to_py", obj |-> stack[1].obj, db |-> db, err |-> err,
               key |-> <<>>, blob |-> <<>>]

\* hash(obj) for m = "Nil" (a fresh Nil store), a dump into the Ram store for
\* m = "Ram": Serialize::new and the call of serialize on the root
to_py_start(o, m) ==
    /\ pc = "idle"
    /\ nops < MaxOps
    /\ \E order \in IterOrders(o) :
          stack' = <<Frame(o, order)>>
    /\ pc' = "serialize"
    /\ db' = m
    /\ seen' = EmptyMap
    /\ store0' = hashmap
    /\ chunk' = NoChunk
    /\ nops' = nops + 1
    /\ ret' = NoRet
    /\ modules' = <<>>
    /\ UNCHANGED <<tree, fsroot, procs, keygen, hashmap, puts, runs>>

\* serialize_chunk on a child that is in seen
chunk_seen ==
    /\ pc = "serialize"
    /\ Top.todo # <<>>
    /\ LET c   == Head(Top.todo)
           vin == ChunkIn(Top)
       IN  /\ c \in DOMAIN seen
           /\ LET out == serialize_chunk_seen(seen, vin, c)
              IN  /\ stack' = [stack EXCEPT ![Len(stack)] = ChunkOut(Top, out)]
                  /\ chunk' = [kind |-> "seen", obj |-> c, blob |-> <<>>, db |-> db,
                               err |-> "ok", bytes |-> Appended(vin, out), put |-> FALSE]
    /\ UNCHANGED <<modules, tree, fsroot, procs, keygen, db, hashmap, ret, puts, pc, seen, store0, runs, nops>>

\* serialize_chunk on a child without children: serialize returns at once
chunk_leaf ==
    /\ pc = "serialize"
    /\ Top.todo # <<>>
    /\ LET c   == Head(Top.todo)
           vin == ChunkIn(Top)
       IN  /\ c \notin DOMAIN seen
           /\ Leaf(c)
           /\ LET b == serialize_leaf(c)
                  r == serialize_chunk(db, keygen, hashmap, seen, vin, c, b)
              IN  /\ hashmap' = r.hashmap
                  /\ tree' = insert(tree, db, r.put /\ r.err = "ok", digest(keygen, b))
                  /\ chunk' = [kind |-> "new", obj |-> c, blob |-> b, db |-> db,
                               err |-> r.err, bytes |-> Appended(vin, r.v), put |-> r.put]
                  /\ IF r.err = "ok"
                     THEN /\ stack' = [stack EXCEPT ![Len(stack)] = ChunkOut(Top, r.v)]
                          /\ seen' = r.seen
                          /\ UNCHANGED <<pc, ret>>
                     ELSE Abort(r.err)
    /\ UNCHANGED <<modules, fsroot, procs, keygen, db, puts, store0, runs, nops>>

\* serialize_chunk on a function or a named object: extend_global, which
\* iterates self.modules when the object has no __module__
chunk_global ==
    /\ pc = "serialize"
    /\ Top.todo # <<>>
    /\ LET c   == Head(Top.todo)
           vin == ChunkIn(Top)
       IN  /\ c \notin DOMAIN seen
           /\ IsGlobal(c)
           /\ \E mo \in (IF c \in DOMAIN ModuleAttr \/ modules # <<>>
                         THEN {modules} ELSE Orders(ModuleIds)) :
                LET b == serialize_global(c, mo)
                    r == serialize_chunk(db, keygen, hashmap, seen, vin, c, b)
                IN  /\ modules' = mo
                    /\ hashmap' = r.hashmap
                    /\ tree' = insert(tree, db, r.put /\ r.err = "ok", digest(keygen, b))
                    /\ chunk' = [kind |-> "new", obj |-> c, blob |-> b, db |-> db,
                                 err |-> r.err, bytes |-> Appended(vin, r.v), put |-> r.put]
                    /\ IF r.err = "ok"
                       THEN /\ stack' = [stack EXCEPT ![Len(stack)] = ChunkOut(Top, r.v)]
                            /\ seen' = r.seen
                            /\ UNCHANGED <<pc, ret>>
                       ELSE Abort(r.err)
    /\ UNCHANGED <<fsroot, procs, keygen, db, puts, store0, runs, nops>>

\* serialize on a child of a kind it cannot dump: TypeError
chunk_type_error ==
    /\ pc = "serialize"
    /\ Top.todo # <<>>
    /\ Head(Top.todo) \notin DOMAIN seen
    /\ Heap[Head(Top.todo)].kind = "opaque"
    /\ Abort("TypeError")
    /\ UNCHANGED <<modules, tree, fsroot, procs, keygen, db, hashmap, puts, chunk, store0, runs, nops>>

\* the mutant: serialize_chunk returns a Recursion error for a child that is
\* being serialized
chunk_enter_detect ==
    /\ pc = "serialize"
    /\ Top.todo # <<>>
    /\ LET c == Head(Top.todo)
       IN  /\ c \notin DOMAIN seen
           /\ ~Leaf(c)
           /\ ~IsGlobal(c)
           /\ Heap[c].kind # "opaque"
           /\ Len(stack) < MaxDepth
           /\ IF \E i \in 1..Len(stack) : stack[i].obj = c
              THEN Abort("Recursion")
              ELSE /\ \E order \in IterOrders(c) : stack' = Append(stack, Frame(c, order))
                   /\ UNCHANGED <<ret, pc, seen>>
    /\ UNCHANGED <<modules, tree, fsroot, procs, keygen, db, hashmap, puts, chunk, store0, runs, nops>>

\* serialize_chunk on a child with children: the call of serialize on it
chunk_enter ==
    /\ pc = "serialize"
    /\ Top.todo # <<>>
    /\ LET c == Head(Top.todo)
       IN  /\ c \notin DOMAIN seen
           /\ ~Leaf(c)
           /\ ~IsGlobal(c)
           /\ Heap[c].kind # "opaque"
           /\ Len(stack) < MaxDepth
           /\ \E order \in IterOrders(c) : stack' = Append(stack, Frame(c, order))
    /\ UNCHANGED <<modules, tree, fsroot, procs, keygen, db, hashmap, ret, puts, pc, seen, chunk, store0, runs, nops>>

\* serialize_chunk on a child with children when the stack has no room for the
\* call of serialize: the thread overflows its stack and the process ends,
\* nothing is returned
stack_overflow ==
    /\ pc = "serialize"
    /\ Top.todo # <<>>
    /\ LET c == Head(Top.todo)
       IN  /\ c \notin DOMAIN seen
           /\ ~Leaf(c)
           /\ ~IsGlobal(c)
           /\ Heap[c].kind # "opaque"
           /\ Len(stack) >= MaxDepth
    /\ pc' = "overflow"
    /\ UNCHANGED <<modules, tree, fsroot, procs, keygen, db, hashmap, ret, puts, stack, seen, chunk, store0, runs, nops>>

\* serialize of a child returns its blob to the serialize_chunk that called it
chunk_return ==
    /\ pc = "serialize"
    /\ Top.todo = <<>>
    /\ Len(stack) > 1
    /\ LET b      == FrameBlob(Top)
           parent == stack[Len(stack) - 1]
           vin    == ChunkIn(parent)
           r      == serialize_chunk(db, keygen, hashmap, seen, vin, Top.obj, b)
       IN  /\ hashmap' = r.hashmap
           /\ tree' = insert(tree, db, r.put /\ r.err = "ok", digest(keygen, b))
           /\ chunk' = [kind |-> "new", obj |-> Top.obj, blob |-> b, db |-> db,
                        err |-> r.err, bytes |-> Appended(vin, r.v), put |-> r.put]
           /\ IF r.err = "ok"
              THEN /\ stack' = Append(SubSeq(stack, 1, Len(stack) - 2), ChunkOut(parent, r.v))
                   /\ seen' = r.seen
                   /\ UNCHANGED <<pc, ret>>
              ELSE Abort(r.err)
    /\ UNCHANGED <<modules, fsroot, procs, keygen, db, puts, store0, runs, nops>>

\* serialize of the root returns: to_py puts the blob and returns its key
to_py_finish ==
    /\ pc = "serialize"
    /\ Top.todo = <<>>
    /\ Len(stack) = 1
    /\ LET h == FrameBlob(Top)
           r == to_py_put(db, keygen, hashmap, h)
       IN  /\ hashmap' = r.hashmap
           /\ tree' = insert(tree, db, r.err = "ok", r.key)
           /\ pc' = IF db = "LSM" /\ r.err = "ok" THEN "flush" ELSE "idle"
           /\ ret' = [op |-> "to_py", obj |-> Top.obj, db |-> db, err |-> r.err,
                      key |-> IF r.err = "ok" THEN r.key ELSE <<>>, blob |-> h]
           /\ runs' = IF r.err = "ok"
                      THEN runs \cup {[obj |-> Top.obj, db |-> db, order |-> Top.order,
                                       key |-> r.key, blob |-> h]}
                      ELSE runs
    /\ stack' = <<>>
    /\ seen' = EmptyMap
    /\ UNCHANGED <<modules, fsroot, procs, keygen, db, puts, chunk, store0, nops>>

\* the keys a caller holds: those the to_py calls so far returned
KnownKeys == {r.key : r \in runs}

\* Deserialize::from_py on the Ram store
from_py_call(kb) ==
    /\ pc = "idle"
    /\ LET r == from_py(kb, "Ram", hashmap)
       IN  ret' = [op |-> "from_py", arg |-> kb, err |-> r.err, value |-> r.value,
                   gets |-> r.gets, cache |-> r.cache, ids |-> r.ids]
    /\ db' = "Ram"
    /\ UNCHANGED <<modules, tree, fsroot, procs, keygen, hashmap, puts, pc, stack, seen, chunk, store0, runs, nops>>

Next ==
    \/ \E o \in Roots, m \in {"Ram", "Nil"} : to_py_start(o, m)
    \/ \E kb \in KnownKeys : from_py_call(kb)
    \/ chunk_seen
    \/ chunk_leaf
    \/ chunk_type_error
    \/ chunk_enter
    \/ chunk_return
    \/ to_py_finish

Spec == Init /\ [][Next]_vars

-----------------------------------------------------------------------------
(* Serialize::to_py on objects that hold themselves.  The calls of one dump *)
(* run in one thread, one after the other, until to_py returns or the       *)
(* process ends.                                                            *)

SerializeStep ==
    \/ chunk_seen
    \/ chunk_leaf
    \/ chunk_type_error
    \/ chunk_enter
    \/ chunk_return
    \/ to_py_finish
    \/ stack_overflow

NextCycle ==
    \/ \E o \in CycleRoots, m \in {"Ram", "Nil"} : to_py_start(o, m)
    \/ chunk_seen
    \/ chunk_leaf
    \/ chunk_type_error
    \/ chunk_enter
    \/ chunk_return
    \/ to_py_finish
    \/ stack_overflow

SpecCycle == Init /\ [][NextCycle]_vars

-----------------------------------------------------------------------------
(* serialize of serialize.rs: the serializer that writes TRAVERSE before   *)
(* the root chunk and, after it, the list br.0 of back-reference indices.  *)
(* The operators thread the record t through the calls: t.v is the vector  *)
(* being written, t.br0 and t.br1 are the two parts of backrefs, t.seen    *)
(* and t.hashmap the seen map and the store; t.err is "ok" or the error    *)
(* that ? passes on.  e holds what the calls do not change: e.ord, the     *)
(* order in which each set, frozenset and dict is iterated, e.mo, the      *)
(* order of modules.iter(), the Mapping e.m and its key generator e.g.     *)

\* token::TRAVERSE
token_TRAVERSE == 16

RECURSIVE usize_encode(_)
\* usize::encode: the bytes of an index, seven bits a byte, low bits first
usize_encode(n) ==
    IF n < 128 THEN <<n>> ELSE <<128 + (n % 128)>> \o usize_encode(n \div 128)

\* the objects handed to serialize
TraverseRoots == { "l12", "lxx", "lshare", "ll", "lu", "s12", "smix", "fs", "d", "dn" }

\* the sets, frozensets and dicts that o holds, itself included
UnorderedBelow(o) == {x \in ObjIds : Unordered(x) /\ x \in Below({o})}

RECURSIVE OrderMaps(_)
\* every choice of an iteration order for each of the objects U
OrderMaps(U) ==
    IF U = {} THEN {EmptyMap}
    ELSE LET x == CHOOSE y \in U : TRUE
         IN  {[y \in U |-> IF y = x THEN order ELSE f[y]] :
                 f \in OrderMaps(U \ {x}), order \in IterOrders(x)}

\* every way the host may iterate the sets, frozensets and dicts that o holds
TraverseOrders(o) == OrderMaps(UnorderedBelow(o))

\* chunks.sort_by(|(_, a), (_, b)| a.cmp(b)): the place, counted from 0, that
\* the i-th chunk takes (the sort is stable)
SortedPlace(chunks, i) ==
    Cardinality({k \in 1..Len(chunks) :
                    \/ LexLess(chunks[k], chunks[i])
                    \/ (chunks[k] = chunks[i] /\ k < i)})

\* F(x), with x computed once
Bind(x, F(_)) == CHOOSE r \in {F(y) : y \in {x}} : TRUE

RECURSIVE serialize_chunk_br(_, _, _, _)
RECURSIVE serialize_items_br(_, _, _, _)
RECURSIVE serialize_groups_br(_, _, _, _, _)

\* for item in l { serialize_chunk(&item, db, v, backrefs, ..)? }
serialize_items_br(items, t, br, e) ==
    IF items = <<>> \/ t.err # "ok" THEN t
    ELSE Bind(serialize_chunk_br(Head(items), t, br, e),
              LAMBDA t1 : serialize_items_br(Tail(items), t1, br, e))

\* the loop over the items of a set or frozenset, or over the (key, value)
\* pairs of a dict: each is written into a vector b of its own; chunks are
\* those written so far
serialize_groups_br(groups, chunks, t, br, e) ==
    IF groups = <<>> \/ t.err # "ok" THEN [t |-> t, chunks |-> chunks]
    ELSE Bind(serialize_items_br(Head(groups), [t EXCEPT !.v = <<>>], br, e),
              LAMBDA r : serialize_groups_br(Tail(groups), Append(chunks, r.v),
                                             [r EXCEPT !.v = t.v], br, e))

\* serialize_chunk of serialize.rs, its first lines: the entry in backrefs
\* and the byte pushed for the length; br is backrefs.is_some()
serialize_chunk_backref(o, t, br) ==
    LET n1  == Cardinality(DOMAIN t.br1)
        hit == br /\ o \in DOMAIN t.br1
        t1  == IF ~br THEN t
               ELSE IF hit THEN [t EXCEPT !.br0 = Append(@, n1 - t.br1[o])]
               ELSE [t EXCEPT !.br0 = Append(@, 0),
                              !.br1 = [x \in DOMAIN t.br1 \cup {o} |->
                                           IF x = o THEN n1 ELSE t.br1[x]]]
    IN  [t |-> [t1 EXCEPT !.v = Append(@, 0)], br |-> br /\ ~hit, n |-> Len(t.v) + 1]

\* serialize_chunk of serialize.rs, the branch of a set, frozenset or dict
serialize_unordered_br(o, t, br, e) ==
    LET order  == e.ord[o]
        groups == [i \in 1..Len(order) |->
                      IF Heap[o].kind = "dict" THEN order[i] ELSE <<order[i]>>]
        nb     == Len(t.br0)
        t1     == [t EXCEPT !.v = Append(@, ContainerToken(o)),
                            !.br0 = IF br THEN @ \o [i \in 1..Len(order) |-> 0] ELSE @]
    IN  Bind(serialize_groups_br(groups, <<>>, t1, br, e),
             LAMBDA r :
                IF r.t.err # "ok" THEN r.t
                ELSE [r.t EXCEPT
                        !.v = @ \o Concat(SortChunks(r.chunks)),
                        !.br0 = IF br
                                THEN [i \in 1..Len(@) |->
                                        IF i > nb /\ i <= nb + Len(order)
                                        THEN SortedPlace(r.chunks, i - nb)
                                        ELSE @[i]]
                                ELSE @])

\* serialize_chunk of serialize.rs, the branches by the type of obj
serialize_chunk_content(o, t, br, e) ==
    CASE Leaf(o) -> [t EXCEPT !.v = @ \o serialize_leaf(o)]
      [] Heap[o].kind \in {"list", "tuple"} ->
            serialize_items_br(Heap[o].items,
                               [t EXCEPT !.v = Append(@, ContainerToken(o))], br, e)
      [] Heap[o].kind \in {"set", "frozenset", "dict"} -> serialize_unordered_br(o, t, br, e)
      [] IsGlobal(o) -> [t EXCEPT !.v = @ \o serialize_global(o, e.mo)]
      [] OTHER -> [t EXCEPT !.err = "TypeError"]

\* serialize_chunk of serialize.rs, its last lines: the length byte, or the
\* put_blob of a chunk longer than 255 bytes; n is where the chunk starts
serialize_chunk_close(o, t, n, e) ==
    IF t.err # "ok" THEN t
    ELSE IF Len(t.v) - n <= U8_MAX THEN [t EXCEPT !.v[n] = Len(t.v) - n]
    ELSE Bind(put_blob(e.m, e.g, t.hashmap, SubSeq(t.v, n + 1, Len(t.v))),
              LAMBDA r :
                 IF r.err # "ok" THEN [t EXCEPT !.err = r.err, !.hashmap = r.hashmap]
                 ELSE [t EXCEPT !.v = SubSeq(t.v, 1, n) \o r.key,
                                !.hashmap = r.hashmap,
                                !.seen = [x \in DOMAIN t.seen \cup {o} |->
                                             IF x = o THEN r.key ELSE t.seen[x]]])

\* serialize_chunk of serialize.rs on obj = o; br is backrefs.is_some()
serialize_chunk_br(o, t, br, e) ==
    Bind(serialize_chunk_backref(o, t, br),
         LAMBDA p :
            IF o \in DOMAIN p.t.seen THEN [p.t EXCEPT !.v = @ \o p.t.seen[o]]
            ELSE Bind(serialize_chunk_content(o, p.t, p.br, e),
                      LAMBDA t3 : serialize_chunk_close(o, t3, p.n, e)))

\* serialize of serialize.rs: the key, the root blob and the store
serialize_traverse(o, hm, e) ==
    Bind(serialize_chunk_br(o, [err |-> "ok", v |-> <<token_TRAVERSE>>, br0 |-> <<>>,
                                br1 |-> EmptyMap, seen |-> EmptyMap, hashmap |-> hm],
                            TRUE, e),
         LAMBDA t :
            IF t.err # "ok"
            THEN [err |-> t.err, key |-> <<>>, blob |-> <<>>, br0 |-> t.br0,
                  hashmap |-> t.hashmap]
            ELSE Bind(t.v \o Concat([i \in 1..Len(t.br0) |-> usize_encode(t.br0[i])]),
                      LAMBDA v :
                         Bind(put_blob(e.m, e.g, t.hashmap, v),
                              LAMBDA r :
                                 [err |-> r.err,
                                  key |-> IF r.err = "ok" THEN r.key ELSE <<>>,
                                  blob |-> v, br0 |-> t.br0, hashmap |-> r.hashmap])))

\* PyRam.hash(obj): a call of serialize on the Ram store
traverse_call(o, ord) ==
    /\ pc = "idle"
    /\ nops < MaxOps
    /\ \E r \in {serialize_traverse(o, hashmap,
                        [ord |-> ord, mo |-> ModuleIds, m |-> "Ram", g |-> keygen])} :
           /\ hashmap' = r.hashmap
           /\ ret' = [op |-> "serialize", obj |-> o, db |-> "Ram", err |-> r.err,
                      key |-> r.key, blob |-> r.blob, br0 |-> r.br0, order |-> ord]
           /\ runs' = IF r.err = "ok"
                      THEN runs \cup {[obj |-> o, db |-> "Ram", order |-> ord,
                                       key |-> r.key, blob |-> r.blob]}
                      ELSE runs
    /\ db' = "Ram"
    /\ nops' = nops + 1
    /\ UNCHANGED <<modules, tree, fsroot, procs, keygen, puts, pc, stack, seen, chunk, store0>>

NextTraverse == \E o \in TraverseRoots : \E ord \in TraverseOrders(o) : traverse_call(o, ord)

SpecTraverse == Init /\ [][NextTraverse]_vars

-----------------------------------------------------------------------------
(* Deserialize::from_py on a store that holds any blobs: a Ram store is    *)
(* filled by put_blob calls with well-formed and malformed blobs, and       *)
(* from_py is called with any key.                                          *)

MaxBlobs == 3

\* a LIST whose one chunk is a hash reference to the blob b
RefTo(b) == <<token_LIST, 0>> \o Blake3Digest(b)

\* a LIST of two hash references to the blob b
TwoRefs(b) == <<token_LIST, 0>> \o Blake3Digest(b) \o <<0>> \o Blake3Digest(b)

\* a LIST that refers to the blob b through a referenced list, then directly
DeepRefs(b) == <<token_LIST, 0>> \o Blake3Digest(RefTo(b)) \o <<0>> \o Blake3Digest(b)

\* a LIST that refers to the blob b inside an inline chunk, then directly
InlineRefs(b) ==
    <<token_LIST, 2 + NBYTES>> \o RefTo(b) \o <<0>> \o Blake3Digest(b)

\* well-formed blobs: an INT, a list of two inline INTs, references to them,
\* lists that refer to one blob twice
GoodBlobs ==
    { <<token_INT, 5>>,
      <<token_LIST, 2, token_INT, 1, 2, token_INT, 2>>,
      RefTo(<<token_INT, 5>>),
      RefTo(RefTo(<<token_INT, 5>>)),
      TwoRefs(<<token_LIST, 2, token_INT, 1, 2, token_INT, 2>>),
      DeepRefs(<<token_INT, 5>>),
      InlineRefs(<<token_INT, 5>>) }

\* malformed blobs: empty; a tag outside the alphabet; an inline chunk longer
\* than the payload left; a hash reference of fewer than NBYTES bytes; a DICT
\* of three chunks; a GLOBAL without a colon; a REDUCE of one chunk
Malformed ==
    { <<>>,
      <<99>>,
      <<token_LIST, 5, token_INT>>,
      <<token_LIST, 0, 1, 2>>,
      <<token_DICT, 2, token_INT, 1, 2, token_INT, 2, 1, token_NONE>>,
      <<token_GLOBAL, 109, 97>>,
      <<token_REDUCE, 2, token_INT, 1>> }

\* blobs that refer to a malformed blob, in one step and in two
RefsToMalformed == { RefTo(<<>>), RefTo(RefTo(<<token_LIST, 5, token_INT>>)),
                     RefTo(<<token_LIST, 5, token_INT>>) }

LoadBlobs == GoodBlobs \cup Malformed \cup RefsToMalformed

\* the keys handed to from_py: of every blob, and two that are not NBYTES long
LoadKeys ==
    {Blake3Digest(b) : b \in LoadBlobs} \cup { <<1, 2, 3>>, Rep(7, NBYTES + 1) }

InitLoad ==
    /\ keygen = "Blake3"
    /\ db = "Ram"
    /\ hashmap = EmptyMap
    /\ ret = NoRet
    /\ puts = {}
    /\ pc = "idle"
    /\ stack = <<>>
    /\ seen = EmptyMap
    /\ chunk = NoChunk
    /\ store0 = EmptyMap
    /\ runs = {}
    /\ nops = 0
    /\ Unused

\* a put_blob that adds a blob to the store
LoadPut(b) ==
    /\ Cardinality(DOMAIN hashmap) < MaxBlobs
    /\ b \notin {hashmap[k] : k \in DOMAIN hashmap}
    /\ MapPut(b)

NextLoad ==
    \/ \E b \in LoadBlobs : LoadPut(b)
    \/ \E kb \in LoadKeys : from_py_call(kb)

SpecLoad == InitLoad /\ [][NextLoad]_vars

-----------------------------------------------------------------------------
(* PyLSMTree (src/src/db/lsm_tree.rs): dumps is Serialize::to_py on the    *)
(* LSMTree, then a flush when to_py returned a key.                        *)

InitLsm ==
    /\ keygen = "Blake3"
    /\ db = "LSM"
    /\ hashmap = EmptyMap
    /\ ret = NoRet
    /\ puts = {}
    /\ pc = "idle"
    /\ stack = <<>>
    /\ seen = EmptyMap
    /\ chunk = NoChunk
    /\ store0 = EmptyMap
    /\ runs = {}
    /\ nops = 0
    /\ Unused

\* PyLSMTree::dumps after to_py returned Ok: self.db.flush()? succeeds and
\* dumps returns the key
dumps_flush ==
    /\ pc = "flush"
    /\ tree' = flush(tree)
    /\ ret' = [op |-> "dumps", obj |-> ret.obj, db |-> db, err |-> "ok",
               key |-> ret.key, blob |-> ret.blob]
    /\ pc' = "idle"
    /\ UNCHANGED <<modules, fsroot, procs, keygen, db, hashmap, puts, stack, seen, chunk,
                   store0, runs, nops>>

\* self.db.flush()? fails: dumps returns the error, nothing is flushed
dumps_flush_error ==
    /\ pc = "flush"
    /\ ret' = [op |-> "dumps", obj |-> ret.obj, db |-> db, err |-> "IoError",
               key |-> <<>>, blob |-> ret.blob]
    /\ pc' = "idle"
    /\ UNCHANGED <<modules, tree, fsroot, procs, keygen, db, hashmap, puts, stack, seen,
                   chunk, store0, runs, nops>>

NextLsm ==
    \/ \E o \in Roots : to_py_start(o, "LSM")
    \/ chunk_seen
    \/ chunk_leaf
    \/ chunk_type_error
    \/ chunk_enter
    \/ chunk_return
    \/ to_py_finish
    \/ dumps_flush
    \/ dumps_flush_error

SpecLsm == InitLsm /\ [][NextLsm]_vars

\* the same calls on values that hold functions and named objects
NextGlobal ==
    \/ \E o \in GlobalRoots, m \in {"Ram", "Nil"} : to_py_start(o, m)
    \/ \E kb \in KnownKeys : from_py_call(kb)
    \/ chunk_seen
    \/ chunk_leaf
    \/ chunk_global
    \/ chunk_type_error
    \/ chunk_enter
    \/ chunk_return
    \/ to_py_finish

SpecGlobal == Init /\ [][NextGlobal]_vars

-----------------------------------------------------------------------------
(* Int driven directly: write_to on an integer, read_from on its bytes *)

MaxInt == 65536

\* the integers handed to write_to: a range around 0 and the ends of the
\* three-byte range
IntInputs == (-MaxInt..MaxInt) \cup {-8388608, -8388607, 8388606, 8388607}

\* the caller holds the integer n
InitInt ==
    /\ \E n \in IntInputs : ret = [op |-> "int", arg |-> n]
    /\ keygen = "Blake3"
    /\ db = "Ram"
    /\ hashmap = EmptyMap
    /\ puts = {}
    /\ pc = "idle"
    /\ stack = <<>>
    /\ seen = EmptyMap
    /\ chunk = NoChunk
    /\ store0 = EmptyMap
    /\ runs = {}
    /\ nops = 0
    /\ Unused

\* Int::write_to on the integer held, then Int::read_from on the bytes written
int_write_read ==
    /\ ret.op = "int"
    /\ LET n == ret.arg
           b == write_to(n)
       IN  ret' = [op |-> "write_to", arg |-> n, bytes |-> b, back |-> read_from(b)]
    /\ UNCHANGED <<modules, tree, fsroot, procs, keygen, db, hashmap, puts, pc, stack,
                   seen, chunk, store0, runs, nops>>

NextInt == int_write_read

SpecInt == InitInt /\ [][NextInt]_vars

-----------------------------------------------------------------------------
(* FsDB (src/src/db/fsdb.rs): one file per blob under the root directory,  *)
(* at <root>/<first key byte>/<other key bytes>.  Processes call put_blob   *)
(* on the same root; a step is one system call of a process.               *)

MaxPuts == 2

Pids == {"p1", "p2"}

\* the blobs handed to put_blob; under Mock those with the same first byte
\* share a key, so that a file can differ from the blob put under its key
FsBlobs == { <<>>, <<0, 1>>, <<1, 2>>, <<1, 2, 3>>, <<1, 3>> }

FsKeys == {digest(keygen, b) : b \in FsBlobs}

\* a process that is not inside put_blob: res is what its last call returned,
\* fresh whether the file was missing when that call began, snap the file as
\* File::open found it, cmp whether the file stayed as it was while file_equals
\* read it
IdleProc ==
    [pc |-> "idle", b |-> <<>>, off |-> 0, res |-> "none", fresh |-> FALSE,
     snap |-> <<>>, cmp |-> "none"]

InitFs ==
    /\ keygen \in {"Blake3", "Mock"}
    /\ db = "Fs"
    /\ hashmap = EmptyMap
    /\ ret = NoRet
    /\ puts = {}
    /\ pc = "idle"
    /\ stack = <<>>
    /\ seen = EmptyMap
    /\ chunk = NoChunk
    /\ store0 = EmptyMap
    /\ runs = {}
    /\ nops = 0
    /\ modules = <<>>
    /\ tree = NoTree
    /\ fsroot = NoFs
    /\ procs = [p \in Pids |-> IdleProc]

\* FsDB::path_for: the file of the key h, and its parent directory
path_for(h) == h

parent(h) == h[1]

\* put_blob returns res to the process p
FsReturn(p, res, cmp) ==
    procs' = [procs EXCEPT ![p] = [@ EXCEPT !.pc = "idle", !.res = res, !.cmp = cmp]]

\* everything but the processes and the directory
FsRest == <<keygen, db, hashmap, puts, pc, stack, seen, chunk, store0, runs,
            modules, tree>>

\* FsDB::put_blob is called: digest and path_for
fs_put_blob(p, b) ==
    /\ procs[p].pc = "idle"
    /\ nops < MaxPuts
    /\ nops' = nops + 1
    /\ procs' = [procs EXCEPT ![p] =
                    [IdleProc EXCEPT !.pc = "open", !.b = b,
                        !.fresh = path_for(digest(keygen, b)) \notin DOMAIN fsroot.files]]
    /\ UNCHANGED <<FsRest, fsroot, ret>>

\* File::open(&path): Ok goes on to file_equals, Err to create_dir_all
fs_open(p) ==
    /\ procs[p].pc = "open"
    /\ LET f == path_for(digest(keygen, procs[p].b))
       IN  procs' = [procs EXCEPT ![p] =
                IF f \in DOMAIN fsroot.files
                THEN [@ EXCEPT !.pc = "read", !.off = 0, !.snap = fsroot.files[f]]
                ELSE [@ EXCEPT !.pc = "mkdir"]]
    /\ UNCHANGED <<FsRest, fsroot, ret, nops>>

\* the mutant takes a file that ends early for an equal one
file_equals_prefix(content, data, off, n) ==
    IF n = 0 THEN "true"
    ELSE IF n > Len(data) - off
            \/ SubSeq(content, off + 1, off + n) # SubSeq(data, off + 1, off + n)
         THEN "false"
         ELSE "loop"

\* file_equals, one turn of its loop: file.read returned n bytes of content
\* at the offset off, up to which the file and data agree: the result, or
\* "loop" to go round again
file_equals(content, data, off, n) ==
    IF n = 0 THEN (IF off = Len(data) THEN "true" ELSE "false")
    ELSE IF n > Len(data) - off
            \/ SubSeq(content, off + 1, off + n) # SubSeq(data, off + 1, off + n)
         THEN "false"
         ELSE "loop"

\* file_equals: one file.read(&mut buf); it returns any positive number of the
\* bytes left in the file, 0 at its end
fs_read(p) ==
    /\ procs[p].pc = "read"
    /\ LET pr      == procs[p]
           content == fsroot.files[path_for(digest(keygen, pr.b))]
           avail   == Len(content) - pr.off
           cmp     == IF content = pr.snap THEN "stable" ELSE "changed"
       IN  \E n \in (IF avail = 0 THEN {0} ELSE 1..avail) :
              LET eq == file_equals(content, pr.b, pr.off, n)
              IN  CASE eq = "true"  -> FsReturn(p, "ok", cmp)
                    [] eq = "false" -> FsReturn(p, "Collision", cmp)
                    [] eq = "loop"  -> procs' = [procs EXCEPT ![p].off = pr.off + n]
    /\ UNCHANGED <<FsRest, fsroot, ret, nops>>

\* std::fs::create_dir_all(path.parent())
fs_create_dir_all(p) ==
    /\ procs[p].pc = "mkdir"
    /\ fsroot' = [fsroot EXCEPT !.dirs = @ \cup {parent(digest(keygen, procs[p].b))}]
    /\ procs' = [procs EXCEPT ![p].pc = "create"]
    /\ UNCHANGED <<FsRest, ret, nops>>

\* File::create_new(&path): fails when the file exists; write_all of an empty
\* blob writes nothing
fs_create_new(p) ==
    /\ procs[p].pc = "create"
    /\ LET pr == procs[p]
           h  == digest(keygen, pr.b)
           f  == path_for(h)
       IN  IF f \in DOMAIN fsroot.files
           THEN FsReturn(p, "AlreadyExists", "none") /\ UNCHANGED fsroot
           ELSE IF parent(h) \notin fsroot.dirs
           THEN FsReturn(p, "NotFound", "none") /\ UNCHANGED fsroot
           ELSE /\ fsroot' = [fsroot EXCEPT !.files =
                        [k \in DOMAIN @ \cup {f} |-> IF k = f THEN <<>> ELSE @[k]]]
                /\ IF pr.b = <<>> THEN FsReturn(p, "ok", "none")
                   ELSE procs' = [procs EXCEPT ![p] = [@ EXCEPT !.pc = "write", !.off = 0]]
    /\ UNCHANGED <<FsRest, ret, nops>>

\* write_all: one write of n bytes at the end of the file; after the last one
\* put_blob returns Ok(h)
fs_write(p) ==
    /\ procs[p].pc = "write"
    /\ LET pr == procs[p]
           f  == path_for(digest(keygen, pr.b))
       IN  \E n \in 1..(Len(pr.b) - pr.off) :
              /\ fsroot' = [fsroot EXCEPT !.files[f] = SubSeq(pr.b, 1, pr.off + n)]
              /\ IF pr.off + n = Len(pr.b) THEN FsReturn(p, "ok", "none")
                 ELSE procs' = [procs EXCEPT ![p].off = pr.off + n]
    /\ UNCHANGED <<FsRest, ret, nops>>

\* write_all: a write fails (the disk is full, say): put_blob returns the
\* IoError and the file stays as far as it was written
fs_write_error(p) ==
    /\ procs[p].pc = "write"
    /\ FsReturn(p, "WriteError", "none")
    /\ UNCHANGED <<FsRest, fsroot, ret, nops>>

\* the process is interrupted inside write_all and never returns from put_blob
fs_interrupt(p) ==
    /\ procs[p].pc = "write"
    /\ FsReturn(p, "interrupted", "none")
    /\ UNCHANGED <<FsRest, fsroot, ret, nops>>

\* FsDB::get_blob
FsDB_get_blob(root, h) ==
    IF path_for(h) \in DOMAIN root.files
    THEN [err |-> "ok", blob |-> root.files[path_for(h)]]
    ELSE [err |-> "NotFound", blob |-> <<>>]

\* a call of FsDB::get_blob(h): std::fs::read of the file
fs_get_blob(h) ==
    /\ LET r == FsDB_get_blob(fsroot, h)
       IN  ret' = [op |-> "get_blob", arg |-> h, err |-> r.err, blob |-> r.blob]
    /\ UNCHANGED <<FsRest, fsroot, procs, nops>>

NextFs ==
    \/ \E p \in Pids, b \in FsBlobs : fs_put_blob(p, b)
    \/ \E p \in Pids : fs_open(p)
    \/ \E p \in Pids : fs_read(p)
    \/ \E p \in Pids : fs_create_dir_all(p)
    \/ \E p \in Pids : fs_create_new(p)
    \/ \E p \in Pids : fs_write(p)
    \/ \E p \in Pids : fs_write_error(p)
    \/ \E p \in Pids : fs_interrupt(p)
    \/ \E h \in FsKeys : fs_get_blob(h)

SpecFs == InitFs /\ [][NextFs]_vars

-----------------------------------------------------------------------------
(* Properties of the Mapping implementations, checked under SpecMap *)

\* what the caller of get_blob(h) must see, given the successful puts so far
GetAgreesWithPuts(h) ==
    LET r == get_blob(db, hashmap, h)
    IN  /\ r.err \in {"ok", "NotFound"}
        /\ \A b \in MapBlobs : (r.err = "ok" /\ r.blob = b) <=> (<<b, h>> \in puts)
        /\ (r.err = "NotFound") <=> (\A b \in MapBlobs : <<b, h>> \notin puts)

C3_State ==
    db = "Ram" =>
        /\ \A h \in MapKeys \cup DOMAIN hashmap : GetAgreesWithPuts(h)
        /\ \A h \in DOMAIN hashmap : h = digest(keygen, hashmap[h])
        /\ ret.op = "get_blob" =>
              /\ (ret.err = "ok") <=> (<<ret.blob, ret.arg>> \in puts)
              /\ (ret.err = "NotFound") <=> (\A b \in MapBlobs : <<b, ret.arg>> \notin puts)

C3_Step == (db = "Ram" /\ ret'.op = "get_blob") => hashmap' = hashmap

\* C3: a Ram store that started empty is exactly content-addressed: after any
\* sequence of put_blob calls, failed ones included, get_blob(k) returns b iff a
\* successful put_blob(b) returned k, every held entry (k, b) has k = digest(b),
\* get_blob answers NotFound for every other key, and get_blob leaves the store
\* as it is.
C3_RamContentAddressed == [] C3_State /\ [][C3_Step]_vars

\* a get_blob that found a blob in a store that also refused a colliding put
C3_Witness ==
    /\ db = "Ram" /\ keygen = "Mock"
    /\ ret.op = "get_blob" /\ ret.err = "ok"
    /\ Cardinality(puts) >= 2
    /\ \E b \in MapBlobs : digest(keygen, b) = ret.arg /\ b # ret.blob

C4_Step ==
    (/\ db = "Ram"
     /\ ret'.op = "put_blob"
     /\ \E k \in MapKeys : <<ret'.arg, k>> \in puts)
    => /\ ret'.err = "ok"
       /\ <<ret'.arg, ret'.key>> \in puts
       /\ hashmap' = hashmap

\* C4: Ram put_blob is idempotent: once put_blob(b) has succeeded, every later
\* put_blob(b) returns the same key without error and leaves the keys and the
\* bytes under each key unchanged.
C4_RamPutIdempotent == [][C4_Step]_vars

\* a put_blob that found its key held and succeeded
C4_Witness ==
    /\ db = "Ram" /\ ret.op = "put_blob" /\ ret.held /\ ret.err = "ok"
    /\ <<ret.arg, ret.key>> \in puts

C5_Step ==
    (/\ db = "Ram"
     /\ ret'.op = "put_blob"
     /\ digest(keygen, ret'.arg) \in DOMAIN hashmap
     /\ hashmap[digest(keygen, ret'.arg)] # ret'.arg)
    => /\ ret'.err = "Collision"
       /\ hashmap' = hashmap

\* C5: Ram collision detection: when b1 # b2 share a digest k and b1 is held
\* under k, put_blob(b2) returns Collision, and afterwards the store still maps
\* k to b1 and holds no new entry.
C5_RamCollision == [][C5_Step]_vars

\* a put_blob refused with Collision while the first blob is still held
C5_Witness ==
    /\ db = "Ram" /\ keygen = "Mock"
    /\ ret.op = "put_blob" /\ ret.held /\ ret.err = "Collision"
    /\ ret.key \in DOMAIN hashmap /\ hashmap[ret.key] # ret.arg
    /\ <<hashmap[ret.key], ret.key>> \in puts

\* C6: the Nil store persists nothing: put_blob(b) always succeeds with
\* digest(b), and get_blob answers NotFound for every key after every sequence
\* of puts, also for a key a put_blob has just returned.
C6_NilPersistsNothing ==
    db = "Nil" =>
        /\ hashmap = EmptyMap
        /\ ret.op = "put_blob" =>
              /\ ret.err = "ok"
              /\ ret.key = digest(keygen, ret.arg)
              /\ get_blob(db, hashmap, ret.key).err = "NotFound"
        /\ ret.op = "get_blob" => ret.err = "NotFound"
        /\ \A h \in MapKeys : get_blob(db, hashmap, h).err = "NotFound"

\* a get_blob on Nil for a key that an earlier put_blob returned
C6_Witness ==
    /\ db = "Nil" /\ ret.op = "get_blob" /\ ret.err = "NotFound"
    /\ \E b \in MapBlobs : <<b, ret.arg>> \in puts

-----------------------------------------------------------------------------
(* Properties of Serialize and Deserialize, checked under Spec *)

\* C1: round trip: for a value built from INT, BYTES, STRING, LIST, TUPLE, SET,
\* FROZENSET, DICT, NONE, TRUE, FALSE and BYTEARRAY, children with blobs of more
\* than 255 bytes included, from_py on the key that to_py returned for a Ram
\* store succeeds and yields a value structurally equal to the one dumped.
C1_RoundTrip ==
    ret.op = "from_py" =>
        \A r \in runs :
            (r.db = "Ram" /\ r.key = ret.arg) =>
                /\ ret.err = "ok"
                /\ ret.value = Value(r.obj)

\* a load that fetched promoted children and gave back the nested value
C1_Witness ==
    /\ ret.op = "from_py" /\ ret.err = "ok"
    /\ Len(ret.gets) >= 2
    /\ \E r \in runs : r.db = "Ram" /\ r.key = ret.arg /\ r.obj = "nest"
                       /\ ret.value = Value("nest")

\* C2: to_py returns the digest of the root blob whatever its length (a root of
\* more than 255 bytes is stored whole), and the key does not depend on the
\* store: hash(v), computed against Nil, is the key a dump into Ram returns.
C2_KeyIsDigestOfRoot ==
    /\ (ret.op = "to_py" /\ ret.err = "ok") =>
          /\ ret.key = digest(keygen, ret.blob)
          /\ ret.db = "Ram" => /\ ret.key \in DOMAIN hashmap
                               /\ hashmap[ret.key] = ret.blob
    /\ \A r1, r2 \in runs : r1.obj = r2.obj => r1.key = r2.key

\* the same object hashed against Nil and dumped into Ram, its root over 255 bytes
C2_Witness ==
    /\ ret.op = "to_py" /\ ret.err = "ok" /\ Len(ret.blob) > U8_MAX
    /\ \E r1, r2 \in runs :
          r1.obj = ret.obj /\ r2.obj = ret.obj /\ r1.db = "Nil" /\ r2.db = "Ram"

\* C7: promotion threshold: a child whose blob has 1..255 bytes is written as
\* the byte n and the n bytes, without a put_blob; a child whose blob has 256
\* bytes or more is written as 0x00 and the NBYTES bytes of its key, and a
\* persisting store then holds the blob under that key; a child is written in
\* no other way, and the length byte of an inline chunk is never 0.
C7_PromotionThreshold ==
    /\ (chunk.kind = "new" /\ chunk.err = "ok") =>
          LET n == Len(chunk.blob)
          IN  /\ n >= 1
              /\ n <= 255 => /\ chunk.bytes = <<n>> \o chunk.blob
                             /\ chunk.bytes[1] # 0
                             /\ ~chunk.put
              /\ n >= 256 => /\ chunk.bytes = <<0>> \o digest(keygen, chunk.blob)
                             /\ chunk.put
                             /\ chunk.db = "Ram" =>
                                   /\ digest(keygen, chunk.blob) \in DOMAIN hashmap
                                   /\ hashmap[digest(keygen, chunk.blob)] = chunk.blob
    /\ chunk.kind = "seen" =>
          /\ Len(chunk.bytes) = 1 + NBYTES
          /\ chunk.bytes[1] = 0
          /\ ~chunk.put
          /\ chunk.db = "Ram" =>
                /\ Tail(chunk.bytes) \in DOMAIN hashmap
                /\ Len(hashmap[Tail(chunk.bytes)]) >= 256

\* a child of 255 bytes written inline next to one of 256 bytes that was promoted
C7_Witness ==
    /\ chunk.kind = "new" /\ chunk.db = "Ram"
    /\ Len(chunk.blob) = 255 /\ ~chunk.put
    /\ \E c \in DOMAIN seen : /\ seen[c] \in DOMAIN hashmap
                              /\ Len(hashmap[seen[c]]) = 256

RECURSIVE HasUnordered(_)
\* o is a set, frozenset or dict, or holds one
HasUnordered(o) ==
    \/ Unordered(o)
    \/ /\ ~Leaf(o)
       /\ \E i \in 1..Len(Heap[o].items) : HasUnordered(Heap[o].items[i])

\* C8: canonical form of unordered containers: the blob Serialize::serialize
\* produces for a SET, FROZENSET or DICT, and so the key, is the same for every
\* order in which the elements (the pairs of a DICT) are iterated, also when
\* children are promoted to hash references.
C8_OrderIndependent ==
    \A r1, r2 \in runs :
        (r1.obj = r2.obj /\ HasUnordered(r1.obj)) =>
            /\ r1.blob = r2.blob
            /\ r1.key = r2.key

\* a set with a promoted child, serialized twice in two iteration orders
C8_Witness ==
    \E r1, r2 \in runs :
        /\ r1.obj = r2.obj /\ Heap[r1.obj].kind = "set"
        /\ r1.order # r2.order
        /\ \E i \in 1..Len(r1.order) : Len(serialize_leaf(r1.order[i])) > U8_MAX

RECURSIVE Refs(_)
RECURSIVE ChunkRefs(_)
\* the keys a blob refers to, in its own chunks and in the inline chunks inside
Refs(b) ==
    IF b # <<>> /\ b[1] \in {token_LIST, token_TUPLE, token_SET, token_FROZENSET,
                             token_DICT, token_REDUCE}
    THEN ChunkRefs(Tail(b))
    ELSE {}
ChunkRefs(rem) ==
    IF rem = <<>> THEN {}
    ELSE IF rem[1] = 0
         THEN {SubSeq(rem, 2, 1 + NBYTES)} \cup ChunkRefs(SubSeq(rem, 2 + NBYTES, Len(rem)))
         ELSE Refs(SubSeq(rem, 2, 1 + rem[1]))
              \cup ChunkRefs(SubSeq(rem, 2 + rem[1], Len(rem)))

\* C9: referential closure: in every state during and after any sequence of
\* dumps into a Ram store that started empty, aborted dumps included, every hash
\* reference in a held blob names a held key; so when a dump returns its root
\* key everything the root refers to is in the store.
C9_StoreClosed ==
    /\ \A k \in DOMAIN hashmap : Refs(hashmap[k]) \subseteq DOMAIN hashmap
    /\ (ret.op = "to_py" /\ ret.err = "ok" /\ ret.db = "Ram") =>
          /\ ret.key \in DOMAIN hashmap
          /\ Refs(ret.blob) \subseteq DOMAIN hashmap

\* a dump that aborted after promoting a child, in a store that holds references
C9_Witness ==
    /\ ret.op = "to_py" /\ ret.err \in {"TypeError", "Collision"}
    /\ store0 # hashmap
    /\ \E k \in DOMAIN hashmap : Refs(hashmap[k]) # {}

C10_Step ==
    (/\ pc = "serialize"
     /\ db = "Ram"
     /\ \E r \in runs : r.obj = stack[1].obj /\ r.db = "Ram")
    => /\ hashmap' = hashmap
       /\ pc' = "idle" =>
             /\ ret'.err = "ok"
             /\ \A r \in runs : (r.obj = ret'.obj /\ r.db = "Ram") => ret'.key = r.key

\* C10: dump idempotence: a second dump of an unchanged value into the same Ram
\* store returns the key of the first without error, and leaves the store with
\* exactly the blobs it held after the first.
C10_DumpIdempotent == [][C10_Step]_vars

\* a dump that found its root and its promoted children in the store already
C10_Witness ==
    /\ ret.op = "to_py" /\ ret.db = "Ram" /\ ret.err = "ok"
    /\ ret.key \in DOMAIN store0
    /\ store0 = hashmap
    /\ Refs(ret.blob) # {}

\* the blob of x = [b"A" * 254, 1]: 260 bytes
C11_BigX == <<token_LIST, 255, token_BYTES>> \o Rep(65, 254) \o <<2, token_INT, 1>>

\* the blob of x = [1, 2, 3]: 10 bytes
C11_SmallX == <<token_LIST, 2, token_INT, 1, 2, token_INT, 2, 2, token_INT, 3>>

\* a dump into an empty Ram store has returned a key
C11_Dumped(o) ==
    /\ ret.op = "to_py" /\ ret.err = "ok" /\ ret.db = "Ram" /\ ret.obj = o
    /\ store0 = EmptyMap

\* C11 as the spec states it: after dump([x, x]) with x = [1, 2, 3] the store
\* holds one LIST blob for x as its own entry and the root blob is two hash
\* references to its key.
C11_SharingSmall ==
    C11_Dumped("lxx") =>
        LET k == digest(keygen, C11_SmallX)
        IN  /\ Cardinality({h \in DOMAIN hashmap : hashmap[h] = C11_SmallX}) = 1
            /\ ret.blob = <<token_LIST, 0>> \o k \o <<0>> \o k

\* C11, amended: sharing shows in the store only for a child whose blob exceeds
\* 255 bytes.  After dump([x, -129, x]) with x = [b"A" * 254, 1] (260 bytes) into
\* an empty Ram store, the store holds exactly one entry for x beside the root,
\* and the root blob holds two hash references to that key.  After dump([x, x])
\* with x = [1, 2, 3] (10 bytes) the root blob holds the blob of x inline twice
\* and the store holds the root only.
C11_Sharing ==
    /\ C11_Dumped("ll") =>
          LET k == digest(keygen, C11_BigX)
          IN  /\ Cardinality({h \in DOMAIN hashmap : hashmap[h] = C11_BigX}) = 1
              /\ hashmap[k] = C11_BigX
              /\ DOMAIN hashmap = {k, ret.key}
              /\ ret.blob = <<token_LIST, 0>> \o k \o <<3, token_INT, 255, 127>>
                                \o <<0>> \o k
    /\ C11_Dumped("lxx") =>
          /\ ret.blob = <<token_LIST, 10>> \o C11_SmallX \o <<10>> \o C11_SmallX
          /\ DOMAIN hashmap = {ret.key}
          /\ \A h \in DOMAIN hashmap : hashmap[h] # C11_SmallX

\* the dump of [x, -129, x] with the 260-byte x has returned
C11_Witness == C11_Dumped("ll") /\ Cardinality(DOMAIN hashmap) = 2

\* C12 as the spec states it: the root blob of dump([1, 2]) begins with
\* LIST, 0x02, INT, 0x01, 0x02, INT, 0x01, 0x02.
C12_SpecBytes ==
    (ret.op = "to_py" /\ ret.err = "ok" /\ ret.obj = "l12") =>
        /\ Len(ret.blob) >= 8
        /\ SubSeq(ret.blob, 1, 8)
              = <<token_LIST, 2, token_INT, 1, 2, token_INT, 1, 2>>

\* C12, amended: the root blob of dump([1, 2]) is exactly the seven bytes
\* LIST, 0x02, INT, 0x01, 0x02, INT, 0x02: each child is the length byte 2, the
\* tag INT and the one payload byte of the integer; the payload of an INT
\* carries no length byte of its own.
C12_BitExact ==
    (ret.op = "to_py" /\ ret.err = "ok" /\ ret.obj = "l12") =>
        ret.blob = <<token_LIST, 2, token_INT, 1, 2, token_INT, 2>>

\* dump([1, 2]) into Ram has returned and the store holds the root blob
C12_Witness ==
    /\ ret.op = "to_py" /\ ret.err = "ok" /\ ret.obj = "l12" /\ ret.db = "Ram"
    /\ ret.key \in DOMAIN hashmap /\ Len(hashmap[ret.key]) = 7

\* C13: determinism: two runs of hash or dump on the same unchanged value return
\* the same key, also for a value that holds functions or named objects written
\* as GLOBAL; the module name written does not depend on the order in which the
\* registry of loaded modules is iterated.
C13_Deterministic ==
    \A r1, r2 \in runs : r1.obj = r2.obj => r1.key = r2.key

\* the errors from_py returns to its caller as an error value
ErrorValues == {"NotFound", "TypeError", "Utf8Error", "TryFromSliceError",
                "ImportError", "AttributeError"}

\* C14: malformed input is reported as an error value: a from_py call never
\* ends in a panic or an access out of bounds, and a call on a key that is not
\* NBYTES long, or whose root blob is malformed (empty, unknown tag, truncated
\* inline chunk, truncated hash reference, DICT with an odd number of chunks,
\* GLOBAL without a colon, REDUCE with fewer than two chunks), or refers to
\* such a blob, returns an error and no value.
C14_MalformedIsError ==
    ret.op = "from_py" =>
        /\ ret.err # "panic"
        /\ (\/ Len(ret.arg) # NBYTES
            \/ /\ ret.arg \in DOMAIN hashmap
               /\ hashmap[ret.arg] \in Malformed \cup RefsToMalformed
               /\ \A i \in 1..Len(ret.gets) : ret.gets[i] \in DOMAIN hashmap)
           => /\ ret.err \in ErrorValues
              /\ IsError(ret.value)

RECURSIVE Reach(_)
\* the keys reachable from the keys K through the references of held blobs
Reach(K) ==
    LET N == K \cup UNION {Refs(hashmap[k]) : k \in K \cap DOMAIN hashmap}
    IN  IF N = K THEN K ELSE Reach(N)

C15_State ==
    ret.op = "from_py" =>
        /\ (Len(ret.arg) = NBYTES /\ ret.arg \notin DOMAIN hashmap) =>
              /\ ret.err = "NotFound"
              /\ ret.gets = <<ret.arg>>
        /\ (\E i \in 1..Len(ret.gets) : ret.gets[i] \notin DOMAIN hashmap) =>
              /\ ret.err = "NotFound"
              /\ IsError(ret.value)
              /\ \A i \in 1..Len(ret.gets) :
                    ret.gets[i] \notin DOMAIN hashmap <=> i = Len(ret.gets)
        /\ ret.err = "NotFound" =>
              /\ IsError(ret.value)
              /\ ret.gets # <<>>
              /\ ret.gets[Len(ret.gets)] \notin DOMAIN hashmap
        /\ ret.err = "ok" => Reach({ret.arg}) \subseteq DOMAIN hashmap

C15_Step == ret'.op = "from_py" => hashmap' = hashmap

\* C15: missing blobs surface as NotFound: when the root key, or a key a
\* decoded blob refers to, directly or through other blobs, is not held, from_py
\* fails with NotFound at the get_blob of that key, which is its last, and
\* returns no value; a from_py that returns a value found every reachable key;
\* from_py leaves the store as it is.
C15_MissingIsNotFound == [] C15_State /\ [][C15_Step]_vars

\* a load that followed two held references and then missed the third blob
C15_Witness ==
    /\ ret.op = "from_py" /\ ret.err = "NotFound"
    /\ Len(ret.gets) = 3
    /\ ret.gets[1] \in DOMAIN hashmap /\ ret.gets[2] \in DOMAIN hashmap
    /\ ret.gets[3] \notin DOMAIN hashmap

-----------------------------------------------------------------------------
(* Properties of FsDB, checked under SpecFs *)

\* C16: FsDB put_blob is idempotent under concurrency: when two processes call
\* put_blob with the same bytes while the file of the key does not exist yet,
\* and no write fails and no process is interrupted, both calls return Ok,
\* whatever the interleaving of their open, create_dir_all, create_new and
\* write steps; the file created by the other writer is not reported as an
\* IoError or a Collision.
C16_ConcurrentPutOk ==
    \A p, q \in Pids :
        (/\ p # q
         /\ procs[p].pc = "idle" /\ procs[q].pc = "idle"
         /\ procs[p].fresh /\ procs[q].fresh
         /\ procs[p].b = procs[q].b
         /\ {procs[p].res, procs[q].res} \cap {"none", "WriteError", "interrupted"} = {})
        => procs[p].res = "ok" /\ procs[q].res = "ok"

\* C17: partial writes are never corruption: in every state of an FsDB, also
\* in the middle of write_all and after a put_blob that failed or was
\* interrupted, every file holds exactly the bytes whose digest is its key; so
\* get_blob(k) never returns bytes with another digest, and put_blob answers
\* Collision only when a whole blob of another content is held under the key.
C17_NoPartialFiles ==
    /\ \A f \in DOMAIN fsroot.files : digest(keygen, fsroot.files[f]) = f
    /\ (ret.op = "get_blob" /\ ret.err = "ok") => digest(keygen, ret.blob) = ret.arg
    /\ \A p \in Pids :
          procs[p].res = "Collision" =>
              digest(keygen, procs[p].snap) = digest(keygen, procs[p].b)

C20_State ==
    \A p \in Pids :
        (procs[p].pc = "idle" /\ procs[p].cmp = "stable") =>
            /\ procs[p].res = "ok" <=> procs[p].snap = procs[p].b
            /\ procs[p].res # "ok" => procs[p].res = "Collision"

C20_Step ==
    \A p \in Pids :
        (procs[p].pc = "read" /\ procs'[p] # procs[p]) => fsroot' = fsroot

\* C20: the collision check of FsDB is exact: when File::open finds the file of
\* the key, and the file is not written to meanwhile, put_blob returns Ok iff
\* the whole file equals the bytes and Collision otherwise, whatever number of
\* bytes each read delivers, also when the file is a strict prefix of the bytes,
\* the bytes are a strict prefix of the file, or one of them is empty; the
\* steps of the comparison leave the file as it is.
C20_FileEqualsExact == [] C20_State /\ [][C20_Step]_vars

\* a put_blob of <<1, 2, 3>> refused after two reads of the held file <<1, 2>>,
\* next to one of the empty blob refused against a held file
C20_Witness ==
    /\ keygen = "Mock"
    /\ \E p, q \in Pids :
          /\ procs[p].pc = "idle" /\ procs[p].cmp = "stable"
          /\ procs[p].res = "Collision"
          /\ procs[p].b = <<1, 2, 3>> /\ procs[p].snap = <<1, 2>> /\ procs[p].off = 2
          /\ fsroot.files[path_for(digest(keygen, procs[p].b))] = <<1, 2>>
          /\ procs[q].pc = "idle" /\ procs[q].res = "ok"

-----------------------------------------------------------------------------
(* Properties of Int, checked under SpecInt *)

\* n lies in the range of a signed integer of len bytes
Fits(n, len) == -(Pow256(len) \div 2) <= n /\ n < Pow256(len) \div 2

\* C18: Int round trip and minimality: write_to emits no byte for 0 and
\* otherwise the big-endian two's complement of n in the smallest number of
\* bytes whose signed range holds n (127 and -128 take one byte, 128 and -129
\* two), and read_from on the bytes emitted returns n.
C18_IntRoundTripMinimal ==
    /\ ret.op = "write_to" =>
          LET n   == ret.arg
              b   == ret.bytes
              len == Len(b)
          IN  /\ n = 0 <=> b = <<>>
              /\ n # 0 =>
                    /\ Fits(n, len)
                    /\ len > 1 => ~Fits(n, len - 1)
                    /\ \A i \in 1..len : b[i] \in 0..255
                    /\ \A i \in 1..len :
                          b[i] = ((IF n < 0 THEN n + Pow256(len) ELSE n)
                                    \div Pow256(len - i)) % 256
              /\ ret.back = n
    /\ (ret.op = "write_to" /\ ret.arg = 127) => ret.bytes = <<127>>
    /\ (ret.op = "write_to" /\ ret.arg = 128) => ret.bytes = <<0, 128>>
    /\ (ret.op = "write_to" /\ ret.arg = -128) => ret.bytes = <<128>>
    /\ (ret.op = "write_to" /\ ret.arg = -129) => ret.bytes = <<255, 127>>

\* -129 was written as the two bytes 0xFF 0x7F and read back
C18_Witness ==
    /\ ret.op = "write_to" /\ ret.arg = -129
    /\ ret.bytes = <<255, 127>> /\ ret.back = -129

-----------------------------------------------------------------------------
(* Properties of PyLSMTree, checked under SpecLsm *)

C19_State ==
    /\ (ret.op = "dumps" /\ ret.err = "ok") =>
          /\ pc = "idle"
          /\ tree.memtable = {}
          /\ tree.flushes >= 1
          /\ ret.key \in DOMAIN hashmap
          /\ Refs(ret.blob) \subseteq DOMAIN hashmap
    /\ pc = "flush" => (ret.op = "to_py" /\ ret.err = "ok" /\ ret.key \in tree.memtable)

C19_Step ==
    /\ pc = "serialize" =>
          /\ tree'.flushes = tree.flushes
          /\ pc' = "idle" => (ret'.op = "to_py" /\ ret'.err # "ok")
    /\ pc = "flush" =>
          /\ hashmap' = hashmap
          /\ pc' = "idle" /\ ret'.op = "dumps"
          /\ ret'.err = "ok" =>
                /\ ret'.key = ret.key
                /\ tree'.flushes = tree.flushes + 1
                /\ tree'.memtable = {}
    /\ hashmap' # hashmap => pc = "serialize"

\* C19: LSM durability ordering: in PyLSMTree.dumps no flush happens while
\* to_py runs; after its last put_blob, that of the root, a successful dump
\* flushes the active memtable, which then holds the root's key, and only then
\* returns that key, no put_blob in between, so that nothing the dump put is
\* left in the memtable; a dump whose serialization fails returns the error
\* without a flush.
C19_FlushBeforeReturn == [] C19_State /\ [][C19_Step]_vars

\* a dump with promoted children has returned its key after the flush
C19_Witness ==
    /\ ret.op = "dumps" /\ ret.err = "ok"
    /\ Refs(ret.blob) # {}
    /\ tree.memtable = {} /\ tree.flushes = 1

-----------------------------------------------------------------------------
(* Properties of the decoder's cache, checked under Spec *)

RECURSIVE ChunkKeys(_)
\* for every chunk of the payload rem in turn, the key it refers to, <<>> for
\* an inline chunk
ChunkKeys(rem) ==
    IF rem = <<>> THEN <<>>
    ELSE IF rem[1] = 0
         THEN <<SubSeq(rem, 2, 1 + NBYTES)>> \o ChunkKeys(SubSeq(rem, 2 + NBYTES, Len(rem)))
         ELSE << <<>> >> \o ChunkKeys(SubSeq(rem, 2 + rem[1], Len(rem)))

\* C21: load preserves sharing: when the root blob of a loaded list holds two
\* hash references to the same key, the loaded list holds one and the same
\* object at both positions, whether that object is mutable or immutable.
C21_LoadPreservesSharing ==
    (ret.op = "from_py" /\ ret.err = "ok" /\ hashmap[ret.arg][1] = token_LIST) =>
        LET ks == ChunkKeys(Tail(hashmap[ret.arg]))
        IN  \A i, j \in 1..Len(ks) :
                (ks[i] # <<>> /\ ks[i] = ks[j]) =>
                    ret.ids.items[i].id = ret.ids.items[j].id

-----------------------------------------------------------------------------
(* Properties of the decoder's cache, checked under SpecLoad *)

\* C22: the decode cache fetches each key at most once: in a load no key is
\* handed to get_blob twice, however often and however deep blobs refer to it;
\* every key in the cache was fetched, is held by the store, and its entry is
\* the decoding of the blob stored under it; after a load that returned a
\* value the cache holds exactly the keys the root blob refers to, directly or
\* through other blobs, each fetched once.
C22_FetchOnce ==
    ret.op = "from_py" =>
        LET fetched == {ret.gets[i] : i \in 2..Len(ret.gets)}
        IN  /\ \A i, j \in 1..Len(ret.gets) : ret.gets[i] = ret.gets[j] => i = j
            /\ DOMAIN ret.cache \subseteq fetched \cap DOMAIN hashmap
            /\ \A k \in DOMAIN ret.cache :
                  LET r == deserialize(hashmap[k], "Ram", hashmap, NewDeserialize)
                  IN  /\ r.err = "ok"
                      /\ create(ret.cache[k]) = create(r.obj)
            /\ ret.err = "ok" =>
                  /\ DOMAIN ret.cache = Reach({ret.arg}) \ {ret.arg}
                  /\ fetched = DOMAIN ret.cache

\* a load whose blobs refer to the key of INT 5 at two depths fetched it once
C22_Witness ==
    /\ ret.op = "from_py" /\ ret.err = "ok"
    /\ ret.arg = Blake3Digest(DeepRefs(<<token_INT, 5>>))
    /\ ret.gets = <<ret.arg, Blake3Digest(RefTo(<<token_INT, 5>>)),
                    Blake3Digest(<<token_INT, 5>>)>>
    /\ DOMAIN ret.cache = {ret.gets[2], ret.gets[3]}

-----------------------------------------------------------------------------
(* Properties of Serialize.seen, checked under Spec *)

\* a step in which a call of serialize_chunk on the child c returns
ChunkCall(c) ==
    /\ pc = "serialize"
    /\ stack' # stack
    /\ \/ /\ Top.todo # <<>>
          /\ c = Head(Top.todo)
          /\ Len(stack') <= Len(stack)
          /\ Heap[c].kind # "opaque"
       \/ /\ Top.todo = <<>>
          /\ Len(stack) > 1
          /\ c = Top.obj

C23_State ==
    /\ pc # "serialize" => seen = EmptyMap
    /\ \A x \in DOMAIN seen :
          /\ Len(seen[x]) = NBYTES
          /\ db = "Ram" => /\ seen[x] \in DOMAIN hashmap
                           /\ Len(hashmap[seen[x]]) > U8_MAX
                           /\ seen[x] = digest(keygen, hashmap[seen[x]])

C23_Step ==
    /\ \A c \in ObjIds : ChunkCall(c) =>
          /\ chunk'.obj = c
          /\ c \in DOMAIN seen =>
                /\ chunk'.kind = "seen" /\ ~chunk'.put
                /\ chunk'.bytes = <<0>> \o seen[c]
                /\ hashmap' = hashmap
                /\ seen' = seen
                /\ Len(stack') = Len(stack) /\ pc' = "serialize"
          /\ c \notin DOMAIN seen =>
                /\ chunk'.kind = "new"
                /\ chunk'.put <=> Len(chunk'.blob) > U8_MAX
                /\ (chunk'.err = "ok" /\ chunk'.put) =>
                      LET k == digest(keygen, chunk'.blob)
                      IN  /\ DOMAIN seen' = DOMAIN seen \cup {c}
                          /\ seen'[c] = k
                          /\ chunk'.bytes = <<0>> \o k
                          /\ db = "Ram" => (k \in DOMAIN hashmap' /\ hashmap'[k] = chunk'.blob)
                /\ (chunk'.err = "ok" /\ ~chunk'.put) => seen' = seen
                /\ chunk'.err # "ok" => (pc' = "idle" /\ seen' = EmptyMap)
    /\ (pc = "serialize" /\ pc' = "serialize") =>
          /\ \A x \in DOMAIN seen : x \in DOMAIN seen' /\ seen'[x] = seen[x]
          /\ (~ \E c \in ObjIds : ChunkCall(c)) => (seen' = seen /\ hashmap' = hashmap)

\* C23: seen is consistent within one dump: an identity enters seen only in
\* the serialize_chunk call that promotes its blob (longer than 255 bytes),
\* with the key put_blob returned for that blob, and the call emits 0x00 and
\* that key; its entry never changes during the dump; a later call on the same
\* identity emits 0x00 and the same key, the same bytes as the first, without
\* calling serialize or put_blob; so put_blob is called once per promoted
\* identity; seen is empty outside a dump.
C23_SeenConsistent == [] C23_State /\ [][C23_Step]_vars

\* serialize_chunk has just answered from seen for an identity promoted
\* earlier in this dump
C23_Witness ==
    /\ pc = "serialize"
    /\ chunk.kind = "seen"
    /\ chunk.obj \in DOMAIN seen
    /\ chunk.bytes = <<0>> \o seen[chunk.obj]
    /\ db = "Ram"
    /\ Len(hashmap[seen[chunk.obj]]) > U8_MAX

-----------------------------------------------------------------------------
(* Properties of dumps of objects that hold themselves, checked under      *)
(* SpecCycle *)

\* the value graph of o contains a cycle
Cyclic(o) == \E x \in Below({o}) : x \in Below(Kids(x))

\* the objects whose value graph contains a cycle
CyclicObjs == {o \in ObjIds : Cyclic(o)}

RECURSIVE Size(_)
RECURSIVE Sizes(_)
\* the number of steps serialize_chunk takes at most on the object o, whose
\* value graph has no cycle: one for an object without children, and for one
\* with children the call of serialize, the steps of the children, the return
Size(o) ==
    IF Leaf(o) \/ IsGlobal(o) \/ Heap[o].kind = "opaque"
    THEN 1
    ELSE 2 + Sizes(Children(o, Heap[o].items))
Sizes(os) == IF os = <<>> THEN 0 ELSE Size(Head(os)) + Sizes(Tail(os))

\* the steps the dump whose calls are on the stack st has left at most: for
\* every call of serialize its return and the children it has not started
Rank(st) ==
    LET left(i) == IF i < Len(st) THEN Tail(st[i].todo) ELSE st[i].todo
        RECURSIVE Sum(_)
        Sum(i) == IF i = 0 THEN 0 ELSE 1 + Sizes(left(i)) + Sum(i - 1)
    IN  Sum(Len(st))

C24_State ==
    /\ (ret.op = "to_py" /\ ret.obj \in CyclicObjs) =>
          /\ ret.err \in {"TypeError", "Collision"}
          /\ ret.key = <<>>
    /\ ret.op = "to_py" => ret.obj # "cyc"
    /\ pc = "overflow" =>
          /\ stack[1].obj \in CyclicObjs
          /\ Len(stack) = MaxDepth
          /\ \E i, j \in 1..Len(stack) : i < j /\ stack[i].obj = stack[j].obj
          /\ Head(Top.todo) \in {stack[i].obj : i \in 1..Len(stack)}
    /\ \A i, j \in 1..Len(stack) :
          (i < j /\ stack[i].obj = stack[j].obj) => stack[i].obj \notin DOMAIN seen
    /\ pc = "serialize" => ENABLED SerializeStep

C24_Step ==
    /\ pc = "overflow" => UNCHANGED vars
    /\ (pc = "serialize" /\ pc' = "idle") =>
          /\ ret'.op = "to_py" /\ ret'.obj = stack[1].obj
          /\ ret'.err = "ok" <=> ret'.key # <<>>
          /\ stack[1].obj \in CyclicObjs => ret'.err \in {"TypeError", "Collision"}
    /\ (pc = "serialize" /\ stack[1].obj = "cyc" /\ pc' = "serialize") =>
          Len(stack') = Len(stack) + 1
    /\ (pc = "serialize" /\ stack[1].obj \notin CyclicObjs) =>
          /\ pc' \in {"serialize", "idle"}
          /\ Rank(stack') < Rank(stack)

-----------------------------------------------------------------------------
(* Properties of serialize of serialize.rs, checked under SpecTraverse *)

\* C25: the traversal-recording serializer is order-independent: two calls
\* of serialize on the same object return the same root blob and the same
\* key, in whatever order the sets, frozensets and dicts it holds were
\* iterated.
C25_TraverseOrderIndependent ==
    \A r1, r2 \in runs :
        r1.obj = r2.obj => (r1.key = r2.key /\ r1.blob = r2.blob)

=============================================================================
